---- MODULE Spec2Model ----
(***************************************************************************)
(* A model of the fetch-tier escalation and extraction pipeline of the     *)
(* Web-Scraper repository:                                                 *)
(*   core/anti_block.py  AntiBlockEngine  (headers, proxy pool, backoff)   *)
(*   core/scraper.py     UniversalScraper (scrape, the three fetch tiers)  *)
(*   core/plugins.py     PluginManager    (extractor registry)             *)
(*   api/main.py         scrape_url       (dispatch, fetch, extraction)    *)
(*                                                                         *)
(* Three specifications share the variables:                               *)
(*   Spec         one UniversalScraper serving scrape() calls              *)
(*   SpecRotator  one AntiBlockEngine serving get/add/remove_proxy calls   *)
(*   SpecPlugins  one PluginManager and the /api/v1/scrape handler         *)
(***************************************************************************)
EXTENDS Integers, Sequences, FiniteSets, TLC

VARIABLES
    \* AntiBlockEngine (anti_block.py:30-35)
    proxies,              \* self.proxies, a list of proxy strings
    current_proxy_index,  \* self.current_proxy_index, 0-based
    enable_rotation,      \* self.enable_rotation
    \* history of the engine's calls
    get_proxy_calls,      \* number of get_proxy() calls so far
    last_proxy,           \* the value the last get_proxy() returned
    pool_changed,         \* add_proxy/remove_proxy changed the pool since construction
    last_op,              \* the last call on the pool: its name, argument and the state it found
    agents,               \* the user agents the get_headers() calls returned, in call order
    \* UniversalScraper (scraper.py:20-25)
    browser_manager,      \* TRUE iff self.browser_manager is set (use_browser)
    \* one activation of scrape() (scraper.py:27-75)
    pc,                   \* where the activation is
    url, method, retries, kwargs,   \* its arguments
    headers,              \* the local `headers` after line 51
    get_headers_calls,    \* get_headers() calls made by this activation
    attempt,              \* the loop variable of line 53
    calls,                \* the tier invocations of this activation, in order
    sleeps,               \* the wait_before_retry calls of this activation, in order
    result,               \* the dict scrape() returned
    error,                \* the exception scrape() raised
    \* PluginManager (plugins.py:66) and the scrape_url handler
    extractors,           \* self.extractors
    registered,           \* the extractors register_extractor accepted, in call order
    dispatched,           \* the last get_extractor_for_url call: its url and return value
    response,             \* the last scrape_url call: what it did
    \* threads inside get_proxy() on one shared engine (anti_block.py:61-63)
    t_pc,                 \* per thread: where it is in get_proxy
    t_seen,               \* per thread: the cursor value line 62 read
    t_proxy,              \* per thread: the local `proxy` of line 62
    t_next,               \* per thread: the value line 63 computed, not yet stored
    \* BrowserManager (browser.py:26-32)
    browser_type,         \* self.browser_type
    playwright,           \* TRUE iff self.playwright is set
    browser,              \* TRUE iff self.browser is set
    context,              \* TRUE iff self.context is set
    created,              \* how often each handle was created since construction or close()
    released,             \* what the last close() since the last fetch did
    \* one call of scrape_page_async / scrape_authenticated_async
    bpc,                  \* the await it is at, or "idle", "returned", "raised"
    frame,                \* the coroutines that are active, outermost first
    raising,              \* the await whose exception is propagating, or None
    bop,                  \* the call's arguments
    btrace,               \* the awaits that have completed, in order
    open_pages,           \* the coroutines whose page is open
    pages_made,           \* per coroutine, how many pages it has created
    page_height,          \* document.body.scrollHeight of the page
    growth,               \* how many more times the page can grow
    last_height,          \* _auto_scroll's local
    passes,               \* scroll-and-measure passes _auto_scroll has made
    heights,              \* every height _auto_scroll has measured, in order
    \* the rating normalizers (comparator.py:96-120, price_tracker.py:247-263)
    norm_fn,              \* which class's _normalize_rating
    norm_in,              \* its argument
    norm_out,             \* its return value
    \* normalize_product (comparator.py:27-56) and
    \* normalize_product_attributes (price_tracker.py:192-216)
    product,              \* the raw product dict
    normalized,           \* the dict returned for it
    \* Database (db.py) behind PriceTracker.track_product
    db_products,          \* table products: row i has id i
    db_history,           \* table price_history
    tracked,              \* the last track_product call
    \* ScrapingScheduler (scheduler.py:24-28)
    jobs,                 \* self.jobs
    job_callbacks,        \* self.job_callbacks
    scheduled,            \* the job ids self.scheduler holds
    sched_op,             \* the last add_job / remove_job / run_job_now call
    \* DOMParser (parser.py:18-34)
    soup,                 \* self.soup
    snapshot,             \* what the read methods returned before get_body_text
    body_texts            \* what the get_body_text calls returned, in order

engine_vars  == <<proxies, current_proxy_index, enable_rotation,
                  get_proxy_calls, last_proxy, pool_changed, last_op, agents>>
scrape_vars  == <<browser_manager, pc, url, method, retries, kwargs, headers,
                  get_headers_calls, attempt, calls, sleeps, result, error>>
plugin_vars  == <<extractors, registered, dispatched, response>>
race_vars    == <<t_pc, t_seen, t_proxy, t_next>>
handle_vars  == <<browser_type, playwright, browser, context, created, released>>
ctl_vars     == <<bpc, frame, raising, btrace>>
page_vars    == <<open_pages, pages_made>>
scroll_vars  == <<page_height, growth, last_height, passes, heights>>
browser_vars == <<handle_vars, ctl_vars, bop, page_vars, scroll_vars>>
norm_vars    == <<norm_fn, norm_in, norm_out>>
product_vars == <<product, normalized>>
store_vars   == <<db_products, db_history, tracked>>
sched_vars   == <<jobs, job_callbacks, scheduled, sched_op>>
parser_vars  == <<soup, snapshot, body_texts>>
data_vars    == <<product_vars, store_vars, sched_vars, parser_vars>>
rest_vars    == <<race_vars, browser_vars, norm_vars, data_vars>>
vars == <<engine_vars, scrape_vars, plugin_vars, rest_vars>>

(***************************************************************************)
(* Bounds of the model.                                                    *)
(***************************************************************************)
MaxRetries    == 3    \* scrape() is called with retries in -1..MaxRetries
MaxProxies    == 3    \* the proxy pool holds at most MaxProxies entries
MaxProxyCalls == 6    \* get_proxy() is called at most MaxProxyCalls times
MaxExtractors == 3    \* the registry holds at most MaxExtractors entries
MaxHeaderCalls == 3   \* get_headers() is called at most MaxHeaderCalls times in a row
NumThreads    == 2    \* threads that call get_proxy() at the same time
MaxGrowth     == 2    \* a page grows at most MaxGrowth times while it is scrolled
MaxRatingTenths == 520  \* ratings given to _normalize_rating: 0.0, 0.1, ... 52.0
MaxTracks     == 3    \* track_product is called at most MaxTracks times
MaxNodes      == 2    \* a parsed document has at most MaxNodes elements with content
MaxBodyTexts  == 2    \* get_body_text is called at most MaxBodyTexts times

(***************************************************************************)
(* Program constants.                                                      *)
(***************************************************************************)
NumUserAgents    == 6      \* len(AntiBlockEngine.USER_AGENTS)
BaseDelayMs      == 1000   \* wait_before_retry's base_delay = 1.0 s
BrowserStatus    == 200    \* _scrape_browser reports status_code 200

(***************************************************************************)
(* Values.                                                                 *)
(***************************************************************************)
None      == "None"
NoUrl     == <<>>
\* A url is the sequence of the host names that occur in its text; Python's
\* `needle in url` is membership in it.
AmazonIn    == <<"amazon.in">>
Flipkart    == <<"flipkart.com">>
FlipAmazon  == <<"flipkart.com", "amazon.in">>   \* flipkart.com/r?to=amazon.in
Example     == <<"example.com">>
Urls        == {AmazonIn, Flipkart, FlipAmazon, Example}
ScrapeUrls  == {Example, Flipkart}

Contains(needle, u) == \E i \in DOMAIN u : u[i] = needle

Methods     == {"auto", "requests", "cloudscraper", "browser", "selenium"}
KnownMethods_WithSelenium == Methods
KnownMethods == {"auto", "requests", "cloudscraper", "browser"}
Tiers       == {"requests", "cloudscraper", "browser"}
StatusCodes == {200, 503}      \* what the server answers an HTTP tier
JitterMs    == {0, 1000}       \* the extremes of random.uniform(0, 1)
ProxyPool   == {"p1", "p2", "p3"}


RECURSIVE Pow2(_)
Pow2(n) == IF n = 0 THEN 1 ELSE 2 * Pow2(n - 1)
RECURSIVE Pow10(_)
Pow10(n) == IF n = 0 THEN 1 ELSE 10 * Pow10(n - 1)

RECURSIVE SeqsUpTo(_, _)
SeqsUpTo(S, n) ==
    IF n = 0 THEN {<<>>}
    ELSE LET shorter == SeqsUpTo(S, n - 1)
         IN  shorter \cup {Append(s, x) : s \in shorter, x \in S}

\* sentinels of the record-valued variables
NoHeaders == [User_Agent |-> 0]
NoProxy   == [http |-> None, https |-> None]    \* no proxy: get_proxy's None
\* what scrape()'s caller may pass on as a `proxies=` keyword (**kwargs)
CallerProxies == {NoProxy, [http |-> "caller-proxy", https |-> "caller-proxy"]}
NoResult  == [html |-> [served_by |-> None, url |-> NoUrl], status_code |-> 0,
              method_used |-> None, url |-> NoUrl]
NoError   == [cls |-> None, msg |-> None, url |-> NoUrl, failures |-> <<>>]

(***************************************************************************)
(* AntiBlockEngine                                                         *)
(***************************************************************************)
\* The user agents get_headers may pick: random.choice over the pool when
\* rotation is enabled, USER_AGENTS[0] (agent 1 here) otherwise.
UserAgentChoices_AlwaysRotates == 1..NumUserAgents

UserAgentChoices == IF enable_rotation THEN 1..NumUserAgents ELSE {1}

\* The header dict of get_headers for the picked agent; its nine other
\* entries are constants.
get_headers(ua) == [User_Agent |-> ua]

\* The exponential part of wait_before_retry's delay.
BackoffBase(a) == BaseDelayMs * Pow2(a)

\* wait_before_retry(attempt): the delay slept, with the jitter drawn.
wait_before_retry(a, jitter) ==
    [attempt |-> a, base |-> BackoffBase(a), delay |-> BackoffBase(a) + jitter]

(***************************************************************************)
(* UniversalScraper: the fetch tiers                                       *)
(***************************************************************************)
\* response.raise_for_status(): an HTTPError for 4xx and 5xx.
RaisesForStatus(status) == status >= 400 /\ status < 600

\* The page text a fetch brought back: which client fetched it, and from where.
HTML(client, u) == [served_by |-> client, url |-> u]

\* The dicts the tiers return (lines 102-108, 115-121, 130-136) for the
\* text and status their client got.
_scrape_requests(u, html, status) ==
    [html |-> html, status_code |-> status, method_used |-> "requests", url |-> u]

\* As _scrape_cloudscraper, had its dict been copied from _scrape_requests
\* with the tag left as it was.
_scrape_cloudscraper_TaggedRequests(u, html, status) ==
    [html |-> html, status_code |-> status, method_used |-> "requests", url |-> u]

_scrape_cloudscraper(u, html, status) ==
    [html |-> html, status_code |-> status, method_used |-> "cloudscraper", url |-> u]

_scrape_browser(u, html) ==
    [html |-> html, status_code |-> BrowserStatus, method_used |-> "browser", url |-> u]

\* The exceptions the tiers and scrape() raise: the class, the message, the
\* url the message names (requests' HTTPError: "503 Server Error ... for
\* url: <url>") and the tier failures the exception object describes.
HTTPError(tier, u, status) ==
    [cls |-> "HTTPError", msg |-> "Server Error for url", url |-> u,
     failures |-> <<[tier |-> tier, status |-> status]>>]
BrowserError(u) ==
    [cls |-> "PlaywrightError", msg |-> "navigation failed", url |-> u,
     failures |-> <<[tier |-> "browser", status |-> 0]>>]
BrowserNotInitialized ==
    [cls |-> "Exception", msg |-> "Browser manager not initialized",
     url |-> NoUrl, failures |-> <<>>]
AllMethodsFailed ==
    [cls |-> "Exception",
     msg |-> "All scraping methods failed and browser not available",
     url |-> NoUrl, failures |-> <<>>]
UnknownMethod ==
    [cls |-> "ValueError", msg |-> "Unknown method", url |-> NoUrl,
     failures |-> <<>>]
FailedToScrape(u) ==
    [cls |-> "Exception", msg |-> "Failed to scrape after attempts", url |-> u,
     failures |-> <<>>]

(***************************************************************************)
(* UniversalScraper.scrape (scraper.py:27-75) and _scrape_auto (77-95)     *)
(*                                                                         *)
(* pc is "idle" (no activation), the name of the tier that is executing,   *)
(* "sleep" (inside wait_before_retry), "returned" or "raised".             *)
(***************************************************************************)
\* One tier invocation: the tier, the attempt it belongs to, the headers and
\* the proxy it was called with, and how it ended.
Invocation(tier, a, h, k, st) ==
    [tier |-> tier, attempt |-> a, headers |-> h, proxy |-> k, status |-> st]

MarkLast(cs, st) == [cs EXCEPT ![Len(cs)].status = st]

\* As FirstTier, had _scrape_auto tried the bypass client first.
FirstTier_BypassFirst(m) ==
    CASE m = "auto"         -> "cloudscraper"
      [] m = "requests"     -> "requests"
      [] m = "cloudscraper" -> "cloudscraper"
      [] m = "browser"      -> "browser"
      [] OTHER              -> None

\* The tier scrape() calls first for a method (lines 55-62; for "auto",
\* _scrape_auto's first try, line 81).
FirstTier(m) ==
    CASE m = "auto"         -> "requests"
      [] m = "requests"     -> "requests"
      [] m = "cloudscraper" -> "cloudscraper"
      [] m = "browser"      -> "browser"
      [] OTHER              -> None

\* As AutoStep, had line 81 lacked its `return`: the requests result is
\* dropped and the bypass client is tried all the same.
AutoStep_NoReturn(tier, ok) ==
    CASE tier = "requests"     -> "cloudscraper"
      [] tier = "cloudscraper" -> IF ok THEN "return"
                                  ELSE IF browser_manager THEN "browser" ELSE "raise"
      [] OTHER                 -> IF ok THEN "return" ELSE "propagate"

\* _scrape_auto when `tier` has finished: return its result, try the next
\* tier, raise "All scraping methods failed", or let the browser tier's
\* exception propagate.
AutoStep(tier, ok) ==
    IF ok THEN "return"
    ELSE CASE tier = "requests"     -> "cloudscraper"
           [] tier = "cloudscraper" -> IF browser_manager THEN "browser" ELSE "raise"
           [] OTHER                 -> "propagate"

\* As PinnedStep, had a pinned tier escalated on failure as "auto" does.
PinnedStep_Escalates(tier, ok) ==
    IF ok THEN "return"
    ELSE CASE tier = "requests"     -> "cloudscraper"
           [] tier = "cloudscraper" -> IF browser_manager THEN "browser" ELSE "raise"
           [] OTHER                 -> "propagate"

\* scrape() with a pinned method when its tier has finished (lines 57-62, 67):
\* the tier makes one request and scrape() returns its result or handles its
\* exception.
PinnedStep(tier, ok) == IF ok THEN "return" ELSE "propagate"

\* line 71: if attempt == retries - 1
LastAttempt_Never(a, r) == FALSE

LastAttempt(a, r) == a = r - 1

\* range(retries) is empty (line 53): the loop body never runs
NoAttempts_OnlyZero(r) == r = 0

NoAttempts(r) == r <= 0

\* The except clause of scrape() (lines 69-73) for exception e in attempt a
\* of r: re-raise in the last attempt, otherwise wait_before_retry(a).
ExceptClause(e, a, r, jitter) ==
    /\ attempt' = a
    /\ IF LastAttempt(a, r)
       THEN /\ pc' = "raised"
            /\ error' = e
            /\ sleeps' = sleeps
       ELSE /\ pc' = "sleep"
            /\ error' = NoError
            /\ sleeps' = Append(sleeps, wait_before_retry(a, jitter))

\* The body of the try of scrape() (lines 55-64) entered for attempt a, up to
\* the first tier's network call: cs is the invocation log so far.
TryAttempt(a, m, r, h, k, jitter, cs) ==
    LET tier == FirstTier(m) IN
    IF m \notin KnownMethods
    THEN /\ calls' = cs
         /\ ExceptClause(UnknownMethod, a, r, jitter)
    ELSE IF tier = "browser" /\ ~browser_manager
    THEN \* _scrape_browser raises at line 126
         /\ calls' = Append(cs, Invocation(tier, a, h, k, "failed"))
         /\ ExceptClause(BrowserNotInitialized, a, r, jitter)
    ELSE /\ calls' = Append(cs, Invocation(tier, a, h, k, "pending"))
         /\ pc' = tier
         /\ attempt' = a
         /\ error' = NoError
         /\ sleeps' = sleeps

\* scrape(url, method, retries=r, **kwargs) is called: lines 50-51 and the
\* first attempt up to its first network call.
ScrapeCall ==
    /\ pc = "idle"
    /\ \E u \in ScrapeUrls, m \in Methods, r \in (-1)..MaxRetries,
          k \in CallerProxies, ua \in UserAgentChoices, jitter \in JitterMs :
          /\ url' = u
          /\ method' = m
          /\ retries' = r
          /\ kwargs' = k
          /\ headers' = get_headers(ua)
          /\ get_headers_calls' = get_headers_calls + 1
          /\ result' = NoResult
          /\ IF NoAttempts(r)
             THEN \* range(retries) is empty: line 75
                  /\ pc' = "raised"
                  /\ error' = FailedToScrape(u)
                  /\ UNCHANGED <<attempt, calls, sleeps>>
             ELSE TryAttempt(0, m, r, get_headers(ua), k, jitter, <<>>)
    /\ UNCHANGED <<engine_vars, browser_manager, plugin_vars, rest_vars>>

\* The executing tier finishes: ok with result res, or raising e.
TierReturns(tier, ok, res, e, jitter) ==
    LET done == MarkLast(calls, IF ok THEN "ok" ELSE "failed")
        step == IF method = "auto" THEN AutoStep(tier, ok) ELSE PinnedStep(tier, ok)
    IN  /\ pc = tier
        /\ CASE step = "return" ->
                  /\ result' = res
                  /\ pc' = "returned"
                  /\ calls' = done
                  /\ UNCHANGED <<attempt, sleeps, error>>
             [] step \in Tiers ->
                  /\ calls' = Append(done, Invocation(step, attempt, headers, kwargs, "pending"))
                  /\ pc' = step
                  /\ UNCHANGED <<result, attempt, sleeps, error>>
             [] step = "raise" ->
                  /\ calls' = done
                  /\ ExceptClause(AllMethodsFailed, attempt, retries, jitter)
                  /\ UNCHANGED result
             [] OTHER ->
                  /\ calls' = done
                  /\ ExceptClause(e, attempt, retries, jitter)
                  /\ UNCHANGED result
        /\ UNCHANGED <<engine_vars, browser_manager, plugin_vars, rest_vars,
                       url, method, retries, kwargs, headers, get_headers_calls>>

\* _scrape_requests (lines 97-108): session.get answers with a status.
RequestsReturns ==
    \E status \in StatusCodes, jitter \in JitterMs :
        TierReturns("requests", ~RaisesForStatus(status),
                    _scrape_requests(url, HTML(pc, url), status),
                    HTTPError("requests", url, status), jitter)

\* _scrape_cloudscraper (lines 110-121).
CloudscraperReturns ==
    \E status \in StatusCodes, jitter \in JitterMs :
        TierReturns("cloudscraper", ~RaisesForStatus(status),
                    _scrape_cloudscraper(url, HTML(pc, url), status),
                    HTTPError("cloudscraper", url, status), jitter)

\* _scrape_browser (lines 123-136): scrape_page returns the html or raises.
BrowserReturns ==
    \E ok \in BOOLEAN, jitter \in JitterMs :
        TierReturns("browser", ok, _scrape_browser(url, HTML(pc, url)),
                    BrowserError(url), jitter)

\* As WaitReturns, had line 51 been inside the loop: each retry asks
\* get_headers again.
WaitReturns_NewHeaders ==
    /\ pc = "sleep"
    /\ \E jitter \in JitterMs, ua \in UserAgentChoices :
          /\ headers' = get_headers(ua)
          /\ get_headers_calls' = get_headers_calls + 1
          /\ TryAttempt(attempt + 1, method, retries, get_headers(ua), kwargs, jitter, calls)
    /\ UNCHANGED <<engine_vars, browser_manager, plugin_vars, rest_vars,
                   url, method, retries, kwargs, result>>

\* wait_before_retry returns (line 73): the loop enters the next attempt.
WaitReturns ==
    /\ pc = "sleep"
    /\ \E jitter \in JitterMs :
          TryAttempt(attempt + 1, method, retries, headers, kwargs, jitter, calls)
    /\ UNCHANGED <<engine_vars, browser_manager, plugin_vars, rest_vars,
                   url, method, retries, kwargs, headers, get_headers_calls, result>>

\* The caller has the result or the exception; the scraper is free again.
ScrapeReset ==
    /\ pc \in {"returned", "raised"}
    /\ pc' = "idle"
    /\ url' = NoUrl /\ method' = None /\ retries' = 0 /\ kwargs' = NoProxy
    /\ headers' = NoHeaders /\ attempt' = 0 /\ calls' = <<>> /\ sleeps' = <<>>
    /\ result' = NoResult /\ error' = NoError /\ get_headers_calls' = 0
    /\ UNCHANGED <<proxies, current_proxy_index, enable_rotation, get_proxy_calls,
                   last_proxy, pool_changed, last_op, agents, browser_manager, plugin_vars, rest_vars>>

IdleScrape ==
    /\ pc = "idle" /\ url = NoUrl /\ method = None /\ retries = 0 /\ kwargs = NoProxy
    /\ headers = NoHeaders /\ attempt = 0 /\ calls = <<>> /\ sleeps = <<>>
    /\ result = NoResult /\ error = NoError /\ get_headers_calls = 0

(***************************************************************************)
(* PluginManager (plugins.py:52-133) and scrape_url (api/main.py:108-172)  *)
(***************************************************************************)
\* An extractor object: its class and which instance of it.
Amazon1   == [cls |-> "AmazonExtractor", id |-> 1]
Flipkart1 == [cls |-> "FlipkartExtractor", id |-> 1]
Flipkart2 == [cls |-> "FlipkartExtractor", id |-> 2]
ExtractorObjects == {Amazon1, Flipkart1, Flipkart2}
NotAnExtractor == [cls |-> "dict", id |-> 1]   \* no BaseExtractor
NoExtractor    == [cls |-> None, id |-> 0]     \* Python's None
Generic        == [cls |-> "DOMParser", id |-> 0]   \* the generic extraction

NoDispatch == [url |-> NoUrl, extractor |-> NoExtractor, among |-> <<>>]
NoResponse == [url |-> NoUrl, status_code |-> 0, extracted_by |-> <<>>,
               among |-> <<>>, job |-> None]

\* AmazonExtractor.can_handle (line 168), FlipkartExtractor.can_handle (line 214).
can_handle(x, u) ==
    CASE x.cls = "AmazonExtractor"   -> Contains("amazon.com", u) \/ Contains("amazon.in", u)
      [] x.cls = "FlipkartExtractor" -> Contains("flipkart.com", u)
      [] OTHER                       -> FALSE

\* isinstance(extractor, BaseExtractor), line 77.
IsExtractor(x) == x \in ExtractorObjects

\* As register, had it used insert(0, extractor).
register_Prepends(exts, x) == <<x>> \o exts

\* self.extractors.append(extractor), line 80.
register(exts, x) == Append(exts, x)

\* The loop of get_extractor_for_url from position i on (lines 130-133).
RECURSIVE FirstMatch(_, _, _)
FirstMatch(exts, u, i) ==
    IF i > Len(exts) THEN NoExtractor
    ELSE IF can_handle(exts[i], u) THEN exts[i]
    ELSE FirstMatch(exts, u, i + 1)

\* As get_extractor_for_url, had `return None` been indented into the loop:
\* only the first extractor is asked.
get_extractor_for_url_FirstOnly(exts, u) ==
    IF exts # <<>> /\ can_handle(exts[1], u) THEN exts[1] ELSE NoExtractor

get_extractor_for_url(exts, u) == FirstMatch(exts, u, 1)

\* register_extractor(x): ValueError for an object that is no BaseExtractor.
RegisterExtractor ==
    /\ Len(extractors) < MaxExtractors
    /\ \E x \in ExtractorObjects \cup {NotAnExtractor} :
          IF IsExtractor(x)
          THEN /\ extractors' = register(extractors, x)
               /\ registered' = Append(registered, x)
          ELSE UNCHANGED <<extractors, registered>>
    /\ UNCHANGED <<engine_vars, scrape_vars, rest_vars, dispatched, response>>

\* get_extractor_for_url(u) is called.
GetExtractorForUrl ==
    /\ \E u \in Urls :
          dispatched' = [url |-> u, extractor |-> get_extractor_for_url(extractors, u),
                         among |-> extractors]
    /\ UNCHANGED <<engine_vars, scrape_vars, rest_vars, extractors, registered, response>>

\* POST /api/v1/scrape for url u: the extractor is looked up (line 124), the
\* page is fetched (line 127; scrape() returns or raises), the record is
\* made by the extractor found or else by the generic extraction (lines
\* 136-147; a plugin's extract may raise), the job is stored (lines 160-161);
\* any exception ends the request with status 500 (lines 170-172).
ScrapeUrl ==
    /\ \E u \in Urls, fetched \in BOOLEAN, extracted \in BOOLEAN :
          LET extractor == get_extractor_for_url(extractors, u)
              by == IF ~fetched THEN <<>>
                    ELSE IF extractor # NoExtractor THEN <<extractor>>
                    ELSE <<Generic>>
              ok == fetched /\ (extracted \/ extractor = NoExtractor)
          IN  /\ dispatched' = [url |-> u, extractor |-> extractor, among |-> extractors]
              /\ response' = [url |-> u,
                              status_code |-> IF ok THEN 200 ELSE 500,
                              extracted_by |-> by,
                              among |-> extractors,
                              job |-> IF ok THEN "completed" ELSE None]
    /\ UNCHANGED <<engine_vars, scrape_vars, rest_vars, extractors, registered>>

IdlePlugins ==
    /\ extractors = <<>>
    /\ registered = <<>>
    /\ dispatched = NoDispatch
    /\ response = NoResponse

(***************************************************************************)
(* AntiBlockEngine: the proxy pool (anti_block.py:56-71, 109-118)          *)
(***************************************************************************)
\* The dict get_proxy returns for a proxy string (lines 68-71).
ProxyDict(p) == [http |-> p, https |-> p]
\* proxies[i] raised IndexError
IndexError == [http |-> "IndexError", https |-> "IndexError"]

\* As NextIndex, had the modulus been forgotten.
NextIndex_NoWrap(i, n) == i + 1

\* The cursor after a rotating get_proxy (line 63).
NextIndex(i, n) == (i + 1) % n

\* list.remove(x): the list without the first x
RemoveFirst(s, x) ==
    LET i == CHOOSE k \in DOMAIN s : s[k] = x /\ \A j \in 1..(k - 1) : s[j] # x
    IN  SubSeq(s, 1, i - 1) \o SubSeq(s, i + 1, Len(s))

InPool(p) == \E i \in DOMAIN proxies : proxies[i] = p

\* What last_op holds for a call: the argument, the pool and the cursor it found.
Op(name, p) ==
    [op |-> name, proxy |-> p, before |-> proxies, index_before |-> current_proxy_index]
NoOp == [op |-> None, proxy |-> None, before |-> <<>>, index_before |-> 0]

\* get_proxy() (lines 56-71).
GetProxy ==
    /\ get_proxy_calls < MaxProxyCalls
    /\ get_proxy_calls' = get_proxy_calls + 1
    /\ last_op' = Op("get_proxy", None)
    /\ IF proxies = <<>>
       THEN /\ last_proxy' = NoProxy
            /\ UNCHANGED current_proxy_index
       ELSE IF enable_rotation
       THEN IF current_proxy_index >= Len(proxies)
            THEN \* line 62 raises
                 /\ last_proxy' = IndexError
                 /\ UNCHANGED current_proxy_index
            ELSE /\ last_proxy' = ProxyDict(proxies[current_proxy_index + 1])
                 /\ current_proxy_index' = NextIndex(current_proxy_index, Len(proxies))
       ELSE /\ last_proxy' = ProxyDict(proxies[1])
            /\ UNCHANGED current_proxy_index
    /\ UNCHANGED <<proxies, enable_rotation, pool_changed, agents,
                   scrape_vars, plugin_vars, rest_vars>>

\* As add_proxy, had it skipped a proxy the pool already holds.
add_proxy_Dedup(pool, p) ==
    IF \E i \in DOMAIN pool : pool[i] = p THEN pool ELSE Append(pool, p)

\* self.proxies.append(proxy), line 111.
add_proxy(pool, p) == Append(pool, p)

\* The body of remove_proxy, lines 116-117.
remove_proxy(pool, p) ==
    IF \E i \in DOMAIN pool : pool[i] = p THEN RemoveFirst(pool, p) ELSE pool

\* add_proxy(p) (lines 109-112).
AddProxy ==
    /\ Len(proxies) < MaxProxies
    /\ \E p \in ProxyPool :
          /\ proxies' = add_proxy(proxies, p)
          /\ last_op' = Op("add_proxy", p)
    /\ pool_changed' = TRUE
    /\ UNCHANGED <<current_proxy_index, enable_rotation, get_proxy_calls, last_proxy,
                   agents, scrape_vars, plugin_vars, rest_vars>>

\* remove_proxy(p) (lines 114-118).
RemoveProxy ==
    /\ \E p \in ProxyPool :
          /\ proxies' = remove_proxy(proxies, p)
          /\ pool_changed' = (pool_changed \/ InPool(p))
          /\ last_op' = Op("remove_proxy", p)
    /\ UNCHANGED <<current_proxy_index, enable_rotation, get_proxy_calls, last_proxy,
                   agents, scrape_vars, plugin_vars, rest_vars>>

\* get_headers() (lines 37-54) is called.
GetHeaders ==
    /\ Len(agents) < MaxHeaderCalls
    /\ \E ua \in UserAgentChoices :
          agents' = Append(agents, get_headers(ua).User_Agent)
    /\ UNCHANGED <<proxies, current_proxy_index, enable_rotation, get_proxy_calls,
                   last_proxy, pool_changed, last_op, scrape_vars, plugin_vars, rest_vars>>

(***************************************************************************)
(* get_proxy() called by several threads at once.  The engine has no lock  *)
(* (anti_block.py:24-35 creates none, 56-71 takes none), so the threads'   *)
(* steps interleave: line 62 reads the cursor, line 63 reads it again,     *)
(* calls len() and then stores.                                            *)
(***************************************************************************)
Threads == 1..NumThreads

\* line 62: proxy = self.proxies[self.current_proxy_index]
RacePick(t) ==
    /\ t_pc[t] = "idle"
    /\ enable_rotation /\ proxies # <<>>
    /\ current_proxy_index < Len(proxies)
    /\ t_seen' = [t_seen EXCEPT ![t] = current_proxy_index]
    /\ t_proxy' = [t_proxy EXCEPT ![t] = proxies[current_proxy_index + 1]]
    /\ t_pc' = [t_pc EXCEPT ![t] = "picked"]
    /\ UNCHANGED <<engine_vars, scrape_vars, plugin_vars, t_next, browser_vars, norm_vars,
                   data_vars>>

\* line 63, right-hand side: (self.current_proxy_index + 1) % len(self.proxies)
RaceCompute(t) ==
    /\ t_pc[t] = "picked"
    /\ t_next' = [t_next EXCEPT ![t] = NextIndex(current_proxy_index, Len(proxies))]
    /\ t_pc' = [t_pc EXCEPT ![t] = "computed"]
    /\ UNCHANGED <<engine_vars, scrape_vars, plugin_vars, t_seen, t_proxy,
                   browser_vars, norm_vars, data_vars>>

\* line 63, the store, and the return of lines 68-71
RaceStore(t) ==
    /\ t_pc[t] = "computed"
    /\ current_proxy_index' = t_next[t]
    /\ get_proxy_calls' = get_proxy_calls + 1
    /\ last_proxy' = ProxyDict(t_proxy[t])
    /\ t_pc' = [t_pc EXCEPT ![t] = "done"]
    /\ UNCHANGED <<proxies, enable_rotation, pool_changed, last_op, agents,
                   scrape_vars, plugin_vars, t_seen, t_proxy, t_next,
                   browser_vars, norm_vars, data_vars>>

IdleRace ==
    /\ t_pc = [t \in Threads |-> "idle"]
    /\ t_seen = [t \in Threads |-> 0]
    /\ t_proxy = [t \in Threads |-> None]
    /\ t_next = [t \in Threads |-> 0]

(***************************************************************************)
(* BrowserManager (browser.py).  Every await of its coroutines is one      *)
(* step, which completes or raises (a Playwright error, a timeout, or the  *)
(* CancelledError of a cancelled task).                                    *)
(***************************************************************************)
PageCo == "scrape_page_async"
AuthCo == "scrape_authenticated_async"
BrowserTypes == {"chromium", "netscape"}   \* a supported and an unknown type
BodyHeight == 1000      \* scrollHeight of the page when it has loaded
Finished == {"idle", "returned", "raised"}

Last(s) == s[Len(s)]
Front(s) == SubSeq(s, 1, Len(s) - 1)

NoBrowserOp ==
    [kind |-> None, headers |-> FALSE, auto_scroll |-> FALSE, screenshots |-> FALSE,
     username_selector |-> FALSE, password_selector |-> FALSE,
     submit_selector |-> FALSE]
PageOps ==
    [kind : {PageCo}, headers : BOOLEAN, auto_scroll : BOOLEAN, screenshots : BOOLEAN,
     username_selector : {FALSE}, password_selector : {FALSE},
     submit_selector : {FALSE}]
AuthOps ==
    [kind : {AuthCo}, headers : {FALSE}, auto_scroll : BOOLEAN, screenshots : {FALSE},
     username_selector : BOOLEAN, password_selector : BOOLEAN,
     submit_selector : BOOLEAN]
\* The keyword arguments of scrape_authenticated_async go to scrape_page_async
\* (line 220); the calls modelled pass no headers.
NoneCreated == [playwright |-> 0, browser |-> 0, context |-> 0]
NoPages == [c \in {PageCo, AuthCo} |-> 0]
NoClose == [called |-> FALSE, held |-> {}, handles |-> <<>>, raised |-> FALSE,
            prior |-> <<>>]

\* BrowserManager() (browser.py:19-32), no call running
IdleBrowser ==
    /\ playwright = FALSE /\ browser = FALSE /\ context = FALSE
    /\ created = NoneCreated
    /\ released = NoClose
    /\ bpc = "idle" /\ frame = <<>> /\ raising = None
    /\ bop = NoBrowserOp /\ btrace = <<>>
    /\ open_pages = {} /\ pages_made = NoPages
    /\ page_height = 0 /\ growth = 0 /\ last_height = 0 /\ passes = 0
    /\ heights = <<>>

\* _init_browser's three guards (lines 36, 39, 49)
NeedsStart(pw) == ~pw
NeedsLaunch_Always(br) == TRUE
NeedsLaunch(br) == ~br
NeedsContext(cx) == ~cx

\* The await that follows _init_browser in the coroutine that called it
\* (lines 87, 199).
NewPageOf(fr) == IF Last(fr) = PageCo THEN "new_page" ELSE "login_new_page"

\* Where _init_browser goes next, from its entry, after line 37 and after
\* lines 40-47.
AfterLaunch(cx, fr) == IF NeedsContext(cx) THEN "new_context" ELSE NewPageOf(fr)
AfterStart(br, cx, fr) == IF NeedsLaunch(br) THEN "launch" ELSE AfterLaunch(cx, fr)
InitEntry(pw, br, cx, fr) ==
    IF NeedsStart(pw) THEN "start_playwright" ELSE AfterStart(br, cx, fr)

\* The finally clause of a coroutine (lines 137-138, 222-223).
Finally(co) == IF co = PageCo THEN "close_page" ELSE "close_login_page"

\* Where an exception raised in the innermost coroutine of fr is handled:
\* the finally clause of the innermost coroutine that is inside its try
\* block, that is, whose page is open; the caller when there is none.
Handler_NoFinally(fr, pages) == [pc |-> "raised", frame |-> <<>>]

Handler(fr, pages) ==
    IF Last(fr) \in pages
    THEN [pc |-> Finally(Last(fr)), frame |-> fr]
    ELSE IF Len(fr) = 2 /\ fr[1] \in pages
    THEN [pc |-> Finally(fr[1]), frame |-> <<fr[1]>>]
    ELSE [pc |-> "raised", frame |-> <<>>]

\* The await `at` completes and control moves to `next`.
Proceed(at, next) ==
    /\ bpc' = next
    /\ btrace' = Append(btrace, at)
    /\ UNCHANGED <<frame, raising>>

\* The await `at` raises.
Raises(at) ==
    /\ raising' = at
    /\ bpc' = Handler(frame, open_pages).pc
    /\ frame' = Handler(frame, open_pages).frame
    /\ UNCHANGED btrace

outside_browser == <<engine_vars, scrape_vars, plugin_vars, race_vars, norm_vars,
                     data_vars>>

\* An await that changes nothing but the position.
PlainAwait(at, next) ==
    /\ bpc = at
    /\ \/ Proceed(at, next)
       \/ Raises(at)
    /\ UNCHANGED <<handle_vars, bop, page_vars, scroll_vars, outside_browser>>

\* A call starts: the coroutine's arguments are bound and _init_browser is
\* entered (lines 85, 197).  The page it will load grows up to g more times.
StartCall(op, g) ==
    /\ bpc \in Finished
    /\ bop' = op
    /\ frame' = <<op.kind>>
    /\ bpc' = InitEntry(playwright, browser, context, <<op.kind>>)
    /\ raising' = None
    /\ btrace' = <<>>
    /\ open_pages' = {} /\ pages_made' = NoPages
    /\ page_height' = BodyHeight /\ growth' = g
    /\ last_height' = 0 /\ passes' = 0 /\ heights' = <<>>
    /\ released' = NoClose
    /\ UNCHANGED <<browser_type, playwright, browser, context, created,
                   outside_browser>>

\* How often the page can grow matters only to _auto_scroll.
Growths(op) == IF op.auto_scroll THEN 0..MaxGrowth ELSE {0}

ScrapePageAsync == \E op \in PageOps : \E g \in Growths(op) : StartCall(op, g)

ScrapeAuthenticatedAsync == \E op \in AuthOps : \E g \in Growths(op) : StartCall(op, g)

\* line 37: self.playwright = await async_playwright().start()
StartPlaywright ==
    /\ bpc = "start_playwright"
    /\ \/ /\ playwright' = TRUE
          /\ created' = [created EXCEPT !.playwright = @ + 1]
          /\ Proceed("start_playwright", AfterStart(browser, context, frame))
       \/ /\ Raises("start_playwright")
          /\ UNCHANGED <<playwright, created>>
    /\ UNCHANGED <<browser_type, browser, context, released, bop, page_vars,
                   scroll_vars, outside_browser>>

\* lines 40-47: self.browser = await self.playwright.<type>.launch(...), or
\* ValueError for an unknown type
Launch ==
    /\ bpc = "launch"
    /\ \/ /\ browser_type \in {"chromium", "firefox", "webkit"}
          /\ browser' = TRUE
          /\ created' = [created EXCEPT !.browser = @ + 1]
          /\ Proceed("launch", AfterLaunch(context, frame))
       \/ /\ Raises("launch")
          /\ UNCHANGED <<browser, created>>
    /\ UNCHANGED <<browser_type, playwright, context, released, bop, page_vars,
                   scroll_vars, outside_browser>>

\* line 56: self.context = await self.browser.new_context(...)
NewContext ==
    /\ bpc = "new_context"
    /\ \/ /\ context' = TRUE
          /\ created' = [created EXCEPT !.context = @ + 1]
          /\ Proceed("new_context", NewPageOf(frame))
       \/ /\ Raises("new_context")
          /\ UNCHANGED <<context, created>>
    /\ UNCHANGED <<browser_type, playwright, browser, released, bop, page_vars,
                   scroll_vars, outside_browser>>

\* What follows line 111 in scrape_page_async.
AfterGoto_SkipsSettle(op) == IF op.auto_scroll THEN "measure0" ELSE "content"
AfterGoto(op) == IF op.auto_scroll THEN "measure0" ELSE "settle"

\* lines 87 and 199: page = await self.context.new_page(), before the try
OpenPage(at, co, next) ==
    /\ bpc = at
    /\ \/ /\ open_pages' = open_pages \cup {co}
          /\ pages_made' = [pages_made EXCEPT ![co] = @ + 1]
          /\ Proceed(at, next)
       \/ /\ Raises(at)
          /\ UNCHANGED page_vars
    /\ UNCHANGED <<handle_vars, bop, scroll_vars, outside_browser>>

\* line 87, then line 92: if headers
NewPage ==
    OpenPage("new_page", PageCo, IF bop.headers THEN "set_headers" ELSE "goto")

\* line 93
SetHeaders == PlainAwait("set_headers", "goto")
\* line 111
Goto == PlainAwait("goto", AfterGoto(bop))
\* line 118
Settle == PlainAwait("settle", "content")
\* line 121
Content == PlainAwait("content", "title")
\* line 126, then line 131: if screenshots
Title == PlainAwait("title", IF bop.screenshots THEN "screenshot" ELSE "close_page")
\* line 132; the return of line 135 enters the finally clause
Screenshot == PlainAwait("screenshot", "close_page")

\* lines 137-138: the finally clause closes the page, then the coroutine
\* returns to its caller or the exception goes on to it.  The caller, when
\* there is one, is scrape_authenticated_async at line 220, which enters its
\* own finally clause either way.
ClosePage ==
    /\ bpc = "close_page"
    /\ open_pages' = open_pages \ {PageCo}
    /\ btrace' = Append(btrace, "close_page")
    /\ frame' = Front(frame)
    /\ bpc' = IF Len(frame) > 1 THEN Finally(frame[Len(frame) - 1])
              ELSE IF raising = None THEN "returned" ELSE "raised"
    /\ UNCHANGED <<raising, handle_vars, bop, pages_made, scroll_vars,
                   outside_browser>>

(***************************************************************************)
(* _auto_scroll (lines 140-158), awaited at line 115 inside the try block. *)
(***************************************************************************)
\* line 152: if new_height == last_height: break
LoopExits_AfterOnePass(new_height, last) == TRUE

LoopExits(new_height, last) == new_height = last

\* line 142: last_height = await page.evaluate("document.body.scrollHeight")
MeasureFirst ==
    /\ bpc = "measure0"
    /\ \/ /\ last_height' = page_height
          /\ heights' = <<page_height>>
          /\ Proceed("measure0", "scroll_bottom")
       \/ /\ Raises("measure0")
          /\ UNCHANGED <<last_height, heights>>
    /\ UNCHANGED <<handle_vars, bop, page_vars, page_height, growth, passes,
                   outside_browser>>

\* line 146
ScrollBottom == PlainAwait("scroll_bottom", "scroll_delay")

\* line 147: the pause in which the page may load more content and grow,
\* by as much as its first height
ScrollDelay ==
    /\ bpc = "scroll_delay"
    /\ \/ /\ \/ UNCHANGED <<page_height, growth>>
             \/ /\ growth > 0
                /\ growth' = growth - 1
                /\ page_height' = page_height + BodyHeight
          /\ Proceed("scroll_delay", "measure")
       \/ /\ Raises("scroll_delay")
          /\ UNCHANGED <<page_height, growth>>
    /\ UNCHANGED <<handle_vars, bop, page_vars, last_height, passes, heights,
                   outside_browser>>

\* lines 150-154: measure again, leave the loop or go round
Measure ==
    /\ bpc = "measure"
    /\ \/ /\ heights' = Append(heights, page_height)
          /\ passes' = passes + 1
          /\ IF LoopExits(page_height, last_height)
             THEN /\ Proceed("measure", "scroll_top")
                  /\ UNCHANGED last_height
             ELSE /\ Proceed("measure", "scroll_bottom")
                  /\ last_height' = page_height
       \/ /\ Raises("measure")
          /\ UNCHANGED <<last_height, passes, heights>>
    /\ UNCHANGED <<handle_vars, bop, page_vars, page_height, growth,
                   outside_browser>>

\* line 157
ScrollTop == PlainAwait("scroll_top", "top_delay")
\* line 158, then back at line 118
TopDelay == PlainAwait("top_delay", "settle")

(***************************************************************************)
(* scrape_authenticated_async (lines 175-223)                              *)
(***************************************************************************)
\* lines 211-214: click the submit selector, else press Enter in
\* login_selector.get("password_selector", "body")
SubmitStep_AlwaysEnter(op) ==
    IF op.password_selector THEN "press_enter" ELSE "press_enter_body"

SubmitStep(op) ==
    IF op.submit_selector THEN "click_submit"
    ELSE IF op.password_selector THEN "press_enter" ELSE "press_enter_body"
\* lines 207-208
AfterUsername(op) == IF op.password_selector THEN "fill_password" ELSE SubmitStep(op)
\* lines 205-206
AfterLoginGoto(op) == IF op.username_selector THEN "fill_username" ELSE AfterUsername(op)

\* line 199
LoginNewPage == OpenPage("login_new_page", AuthCo, "login_goto")
\* line 203
LoginGoto == PlainAwait("login_goto", AfterLoginGoto(bop))
\* line 206
FillUsername == PlainAwait("fill_username", AfterUsername(bop))
\* line 208
FillPassword == PlainAwait("fill_password", SubmitStep(bop))
\* line 212
ClickSubmit == PlainAwait("click_submit", "wait_networkidle")
\* line 214
PressEnter ==
    \/ PlainAwait("press_enter", "wait_networkidle")
    \/ PlainAwait("press_enter_body", "wait_networkidle")

\* line 217, then line 220 calls scrape_page_async(url, **kwargs), which
\* enters _init_browser
WaitNetworkIdle ==
    /\ bpc = "wait_networkidle"
    /\ \/ /\ frame' = Append(frame, PageCo)
          /\ bpc' = InitEntry(playwright, browser, context, Append(frame, PageCo))
          /\ btrace' = Append(btrace, "wait_networkidle")
          /\ UNCHANGED raising
       \/ Raises("wait_networkidle")
    /\ UNCHANGED <<handle_vars, bop, page_vars, scroll_vars, outside_browser>>

\* lines 222-223: the finally clause closes the login page
CloseLoginPage ==
    /\ bpc = "close_login_page"
    /\ open_pages' = open_pages \ {AuthCo}
    /\ btrace' = Append(btrace, "close_login_page")
    /\ frame' = <<>>
    /\ bpc' = IF raising = None THEN "returned" ELSE "raised"
    /\ UNCHANGED <<raising, handle_vars, bop, pages_made, scroll_vars,
                   outside_browser>>

(***************************************************************************)
(* close() (lines 225-237): a synchronous method, so no coroutine of this  *)
(* manager is running when it is called.  Each release is an asyncio.run   *)
(* that completes or raises; the handle is unset after it completed.  The  *)
(* record kept of the finished call is dropped.                            *)
(***************************************************************************)
CloseOrder_BrowserFirst == <<"browser", "context", "playwright">>

CloseOrder == <<"context", "browser", "playwright">>

Held == {h \in {"context", "browser", "playwright"} :
             \/ h = "context" /\ context
             \/ h = "browser" /\ browser
             \/ h = "playwright" /\ playwright}

\* The handles close() releases when its release of `fail` raises (None:
\* no release raises).
Releases(held, fail) ==
    LET Pos(h) == CHOOSE i \in DOMAIN CloseOrder : CloseOrder[i] = h
        Reached(h) == h \in held /\ (fail = None \/ Pos(h) < Pos(fail))
    IN  SelectSeq(CloseOrder, Reached)

Close ==
    /\ bpc \in Finished
    /\ \E fail \in {None} \cup Held :
          LET done == Releases(Held, fail)
              Gone(h) == \E i \in DOMAIN done : done[i] = h
          IN  /\ released' = [called |-> TRUE, held |-> Held, handles |-> done,
                              raised |-> fail # None, prior |-> released.handles]
              /\ context' = (context /\ ~Gone("context"))
              /\ browser' = (browser /\ ~Gone("browser"))
              /\ playwright' = (playwright /\ ~Gone("playwright"))
              /\ created' = [h \in DOMAIN created |-> IF Gone(h) THEN 0 ELSE created[h]]
    /\ bpc' = "idle" /\ frame' = <<>> /\ raising' = None
    /\ bop' = NoBrowserOp /\ btrace' = <<>>
    /\ open_pages' = {} /\ pages_made' = NoPages
    /\ page_height' = 0 /\ growth' = 0 /\ last_height' = 0 /\ passes' = 0
    /\ heights' = <<>>
    /\ UNCHANGED <<browser_type, outside_browser>>

(***************************************************************************)
(* _normalize_rating of ProductComparator (comparator.py:96-120) and of    *)
(* PriceTracker (price_tracker.py:247-263).  A rating is counted in        *)
(* tenths, a result in hundredths; a string is the sequence of its words   *)
(* and numbers.                                                            *)
(***************************************************************************)
NoneInput == [kind |-> "none", x |-> 0, text |-> <<>>]
\* a word, or one of a few numbers
Tokens ==
    {[num |-> FALSE, x |-> 0]}
        \cup {[num |-> TRUE, x |-> x] : x \in {0, 45, 50, 51, 80, MaxRatingTenths}}
RatingInputs ==
    {NoneInput}
        \cup {[kind |-> "number", x |-> x, text |-> <<>>] : x \in 0..MaxRatingTenths}
        \cup {[kind |-> "string", x |-> 0, text |-> s] : s \in SeqsUpTo(Tokens, 2)}

NotNormalized == [done |-> FALSE, some |-> FALSE, v |-> 0]
ReturnsNone == [done |-> TRUE, some |-> FALSE, v |-> 0]
Returns(v) == [done |-> TRUE, some |-> TRUE, v |-> v]

\* re.search(r'(\d+\.?\d*)', rating_str): the first number of the string
HasNumber(text) == \E i \in DOMAIN text : text[i].num
FirstNumber(text) ==
    text[CHOOSE i \in DOMAIN text :
             text[i].num /\ \A j \in 1..(i - 1) : ~text[j].num].x

\* comparator.py:103-105 and 114-116: rating / 10.0 if rating > 5
ComparatorScale(x) == IF x > 50 THEN x ELSE x * 10
\* price_tracker.py:252 and 260: rating if rating <= 5 else rating / 10.0
TrackerScale(x) == IF x <= 50 THEN x * 10 ELSE x

\* _normalize_rating of class cls
_normalize_rating(cls, rating) ==
    LET scale(x) == IF cls = "ProductComparator" THEN ComparatorScale(x)
                    ELSE TrackerScale(x)
    IN  IF rating.kind = "none" THEN ReturnsNone
        ELSE IF rating.kind = "number" THEN Returns(scale(rating.x))
        ELSE IF HasNumber(rating.text) THEN Returns(scale(FirstNumber(rating.text)))
        ELSE ReturnsNone

ComparatorNormalizeRating ==
    /\ ~norm_out.done
    /\ norm_fn' = "ProductComparator"
    /\ norm_out' = _normalize_rating("ProductComparator", norm_in)
    /\ UNCHANGED <<norm_in, engine_vars, scrape_vars, plugin_vars, race_vars,
                   browser_vars, data_vars>>

TrackerNormalizeRating ==
    /\ ~norm_out.done
    /\ norm_fn' = "PriceTracker"
    /\ norm_out' = _normalize_rating("PriceTracker", norm_in)
    /\ UNCHANGED <<norm_in, engine_vars, scrape_vars, plugin_vars, race_vars,
                   browser_vars, data_vars>>

(***************************************************************************)
(* _normalize_availability (comparator.py:122-144, price_tracker.py:       *)
(* 265-272).  A text is the sequence of its fragments, cut so that every   *)
(* occurrence of an indicator is a run of whole fragments: `indicator in   *)
(* text` is then "the indicator's fragments are a run of the text's".      *)
(***************************************************************************)
Absent == [kind |-> "missing", b |-> FALSE, text |-> <<>>]
NoneValue == [kind |-> "none", b |-> FALSE, text |-> <<>>]
Text(s) == [kind |-> "text", b |-> FALSE, text |-> s]
AvailabilityTexts ==
    {<<"In", " ", "Stock", " ", "No", "w">>,       \* "In Stock Now"
     <<"Currently", " ", "un", "available">>,      \* "Currently unavailable"
     <<"un", "available">>,                        \* "unavailable"
     <<"Out", " ", "of", " ", "stock">>,           \* "Out of stock"
     <<"Sold", " ", "out">>,                       \* "Sold out"
     <<"available">>, <<"no">>, <<"yes">>,
     <<"Ships", " ", "soon">>,                     \* no indicator
     <<>>}
AvailabilityInputs ==
    {Absent, NoneValue} \cup {[kind |-> "bool", b |-> v, text |-> <<>>] : v \in BOOLEAN}
        \cup {Text(s) : s \in AvailabilityTexts}

\* str.lower()
Lower(s) ==
    [i \in DOMAIN s |->
        CASE s[i] = "In" -> "in" [] s[i] = "Stock" -> "stock" [] s[i] = "No" -> "no"
          [] s[i] = "Currently" -> "currently" [] s[i] = "Out" -> "out"
          [] s[i] = "Sold" -> "sold" [] s[i] = "Ships" -> "ships"
          [] OTHER -> s[i]]

\* `needle in s` for strings
IsSub(needle, s) ==
    \E i \in 0..(Len(s) - Len(needle)) : SubSeq(s, i + 1, i + Len(needle)) = needle

\* the indicator lists of lines 133-134 and 271
positive_indicators ==
    {<<"in", " ", "stock">>, <<"available">>, <<"yes">>, <<"true">>, <<"1">>}
negative_indicators ==
    {<<"out", " ", "of", " ", "stock">>, <<"un", "available">>, <<"no">>,
     <<"false">>, <<"0">>, <<"sold", " ", "out">>}

\* lines 136-138 and 272: some positive indicator is in the text
AnyPositive(s) == \E ind \in positive_indicators : IsSub(ind, s)

\* ProductComparator._normalize_availability: TRUE or FALSE
ComparatorAvailability(a) ==
    IF a.kind = "none" THEN FALSE
    ELSE IF a.kind = "bool" THEN a.b
    ELSE LET s == Lower(a.text)
         IN  IF AnyPositive(s) THEN TRUE
             ELSE IF \E ind \in negative_indicators : IsSub(ind, s) THEN FALSE
             ELSE FALSE

\* PriceTracker._normalize_availability; str(None) is "None"
TrackerAvailability(a) ==
    IF a.kind = "bool" THEN a.b
    ELSE AnyPositive(Lower(IF a.kind = "none" THEN <<"No", "ne">> ELSE a.text))

(***************************************************************************)
(* _normalize_price (comparator.py:58-75, price_tracker.py:226-239), the   *)
(* same in both classes.  A numeric price is counted in hundredths.  A     *)
(* price string is the sequence of its tokens: a run of digits (its value  *)
(* and its length), a dot, or another character.  A float is its sign, the *)
(* digits before the point and the digits after it.                        *)
(***************************************************************************)
Digits(v, n) == [c |-> "d", val |-> v, len |-> n]
Char(ch) == [c |-> ch, val |-> 0, len |-> 0]
PriceTexts ==
    {<<Char("$"), Digits(1, 1), Char(","), Digits(299, 3), Char("."), Digits(99, 2)>>,
     <<Char("-"), Digits(5, 1), Char("."), Digits(0, 2)>>,       \* "-5.00"
     <<Digits(499, 3)>>,                                         \* "499"
     <<Char("x"), Char("."), Char(" "), Digits(499, 3)>>,        \* "Rs. 499"
     <<Digits(1, 1), Char("."), Digits(2, 1), Char("."), Digits(3, 1)>>,  \* "1.2.3"
     <<Char("x")>>, <<Char(".")>>, <<>>}
PriceNumbers == {-500, -1, 0, 129999}
PriceInputs ==
    {[kind |-> k, x |-> 0, text |-> <<>>] : k \in {"missing", "none"}}
        \cup {[kind |-> "number", x |-> x, text |-> <<>>] : x \in PriceNumbers}
        \cup {[kind |-> "string", x |-> 0, text |-> s] : s \in PriceTexts}

NoPrice == [some |-> FALSE, neg |-> FALSE, whole |-> 0, frac |-> 0, fraclen |-> 0]
Float(neg, whole, frac, fraclen) ==
    [some |-> TRUE, neg |-> neg, whole |-> whole, frac |-> frac, fraclen |-> fraclen]

\* As KeptByFilter, had the pattern been [^\d].
KeptByFilter_DigitsOnly(tok) == tok.c = "d"

\* re.sub(r'[^\d.]', '', price_str) keeps the digits and the dots (line 69)
KeptByFilter(tok) == tok.c \in {"d", "."}

\* The digits of a sequence of digit runs, read as one number, and how many
\* they are.
RECURSIVE Joined(_)
Joined(s) ==
    IF s = <<>> THEN [val |-> 0, len |-> 0]
    ELSE LET rest == Joined(Front(s))
         IN  [val |-> rest.val * Pow10(Last(s).len) + Last(s).val,
              len |-> rest.len + Last(s).len]

\* float(price_str) of lines 71-75: the value, or None for the ValueError of
\* a string that is not digits with at most one point
ParseFloat(s) ==
    LET dots == {i \in DOMAIN s : s[i].c = "."}
    IN  IF Cardinality(dots) > 1 \/ Cardinality(dots) = Len(s) THEN NoPrice
        ELSE LET at == IF dots = {} THEN Len(s) + 1 ELSE CHOOSE i \in dots : TRUE
                 whole == Joined(SubSeq(s, 1, at - 1))
                 frac == Joined(SubSeq(s, at + 1, Len(s)))
             IN  Float(FALSE, whole.val, frac.val, frac.len)

_normalize_price(price) ==
    IF price.kind = "none" THEN NoPrice
    ELSE IF price.kind = "number"
    THEN IF price.x < 0 THEN Float(TRUE, (-price.x) \div 100, (-price.x) % 100, 2)
         ELSE Float(FALSE, price.x \div 100, price.x % 100, 2)
    ELSE ParseFloat(SelectSeq(price.text, KeptByFilter))

(***************************************************************************)
(* normalize_product and normalize_product_attributes for the fields       *)
(* price, rating and availability of a product dict.                       *)
(***************************************************************************)
ProductRatings ==
    {[kind |-> k, x |-> 0, text |-> <<>>] : k \in {"missing", "none"}}
        \cup {[kind |-> "number", x |-> x, text |-> <<>>] : x \in {45, 80}}
Products == [price : PriceInputs, rating : ProductRatings,
             availability : AvailabilityInputs]
NoProduct == [price |-> [kind |-> "missing", x |-> 0, text |-> <<>>],
              rating |-> [kind |-> "missing", x |-> 0, text |-> <<>>],
              availability |-> Absent]
Bool(v) == [some |-> TRUE, b |-> v]
NotProduced == [done |-> FALSE, by |-> None, price |-> NoPrice,
                rating |-> ReturnsNone, availability |-> [some |-> FALSE, b |-> FALSE]]

\* ProductComparator.normalize_product (lines 45-49): a field the product
\* lacks is None, the others go through their normalizer
NormalizeProduct ==
    /\ ~normalized.done
    /\ normalized' =
          [done |-> TRUE, by |-> "ProductComparator",
           price |-> IF product.price.kind = "missing" THEN NoPrice
                     ELSE _normalize_price(product.price),
           rating |-> IF product.rating.kind = "missing" THEN ReturnsNone
                      ELSE _normalize_rating("ProductComparator", product.rating),
           availability |->
               IF product.availability.kind = "missing"
               THEN [some |-> FALSE, b |-> FALSE]
               ELSE Bool(ComparatorAvailability(product.availability))]
    /\ UNCHANGED <<product, engine_vars, scrape_vars, plugin_vars, race_vars,
                   browser_vars, norm_vars, store_vars, sched_vars, parser_vars>>

\* dict.get(key, default) of lines 203-208: the default for a missing key
Get(field, default) == IF field.kind = "missing" THEN default ELSE field

\* PriceTracker.normalize_product_attributes (lines 202-210)
NormalizeProductAttributes ==
    /\ ~normalized.done
    /\ normalized' =
          [done |-> TRUE, by |-> "PriceTracker",
           price |-> _normalize_price(
                         Get(product.price, [kind |-> "none", x |-> 0, text |-> <<>>])),
           rating |-> _normalize_rating("PriceTracker", Get(product.rating, NoneInput)),
           availability |->
               Bool(TrackerAvailability(
                        Get(product.availability,
                            [kind |-> "bool", b |-> FALSE, text |-> <<>>])))]
    /\ UNCHANGED <<product, engine_vars, scrape_vars, plugin_vars, race_vars,
                   browser_vars, norm_vars, store_vars, sched_vars, parser_vars>>

(***************************************************************************)
(* PriceTracker.track_product (price_tracker.py:27-48) over                *)
(* Database.insert_product and add_price_history (db.py:144-220), on one   *)
(* connection.  Table products has url TEXT UNIQUE NOT NULL (db.py:82);    *)
(* its ids are 1, 2, ... in insertion order, and no row is deleted.        *)
(***************************************************************************)
TrackUrls == {"shop/a", "shop/b"}
TrackedData == [url : TrackUrls \cup {None}, price : {-1, 0, 999}]   \* -1: no price
NoTrack == [n |-> 0, url |-> None, price |-> -1, id |-> 0, raised |-> FALSE,
            products_before |-> <<>>, history_before |-> <<>>]

\* As Existing, had the SELECT never found a row.
Existing_NeverFound(rows, u) == 0

\* SELECT id FROM products WHERE url = ? (lines 157-158): the id of the row,
\* 0 for no row; NULL equals nothing
Existing(rows, u) ==
    IF u # None /\ \E i \in DOMAIN rows : rows[i].url = u
    THEN CHOOSE i \in DOMAIN rows : rows[i].url = u
    ELSE 0

\* insert_product: the table and the id after it, id 0 when the INSERT
\* violates NOT NULL or UNIQUE and sqlite3 raises IntegrityError
insert_product(rows, data) ==
    LET existing == Existing(rows, data.url)
    IN  IF existing # 0
        THEN [rows |-> [rows EXCEPT ![existing].price = data.price], id |-> existing]
        ELSE IF data.url = None \/ \E i \in DOMAIN rows : rows[i].url = data.url
        THEN [rows |-> rows, id |-> 0]
        ELSE [rows |-> Append(rows, [url |-> data.url, price |-> data.price]),
              id |-> Len(rows) + 1]

\* add_price_history (lines 206-220)
add_price_history(history, id, price) ==
    Append(history, [product_id |-> id, price |-> price, currency |-> "USD"])

TrackProduct ==
    /\ tracked.n < MaxTracks
    /\ \E data \in TrackedData :
          LET ins == insert_product(db_products, data)
          IN  /\ db_products' = ins.rows
              /\ db_history' =
                    IF ins.id # 0 /\ data.price # -1
                    THEN add_price_history(db_history, ins.id, data.price)
                    ELSE db_history
              /\ tracked' = [n |-> tracked.n + 1, url |-> data.url,
                             price |-> data.price, id |-> ins.id,
                             raised |-> ins.id = 0,
                             products_before |-> db_products,
                             history_before |-> db_history]
    /\ UNCHANGED <<engine_vars, scrape_vars, plugin_vars, race_vars, browser_vars,
                   norm_vars, product_vars, sched_vars, parser_vars>>

(***************************************************************************)
(* ScrapingScheduler (scheduler.py): jobs and job_callbacks are the two    *)
(* dicts of __init__ (lines 25-26), functions from job ids; scheduled is   *)
(* the set of ids in the BackgroundScheduler's job store, which drops a    *)
(* date job once it has run.  A cron expression is the sequence of its     *)
(* whitespace-separated parts, <<>> for None.                              *)
(***************************************************************************)
JobIds == {"j1", "j2"}
Callbacks == {"scrape_a", "scrape_b"}
ScheduleTypes == {"interval", "cron", "date", "weekly"}
CronExpressions == {<<>>, <<"0", "0", "*", "*", "*">>, <<"0", "0", "*">>,
                    <<"0", "25", "*", "*", "*">>}
NoSchedOp == [op |-> "none", job_id |-> "", callback |-> "", schedule_type |-> "",
              raised |-> FALSE, jobs_before |-> <<>>, callbacks_before |-> <<>>]

\* CronTrigger rejects a field out of its range with ValueError
ValidCron(parts) == parts[2] \in {"0", "*"}

\* Lines 58-93: the trigger of the job, "ValueError" when the code raises
Trigger(schedule_type, cron_expression) ==
    CASE schedule_type = "interval" -> <<"interval", "hours=1">>
      [] schedule_type = "cron" ->
            IF cron_expression # <<>>
            THEN IF Len(cron_expression) = 5 /\ ValidCron(cron_expression)
                 THEN <<"cron">> \o cron_expression
                 ELSE <<"ValueError">>
            ELSE <<"cron", "0", "0">>
      [] schedule_type = "date" -> <<"date", "now+5s">>
      [] OTHER -> <<"ValueError">>

\* dict[key] = value and del dict[key]
Put(map, key, value) == [k \in DOMAIN map \cup {key} |-> IF k = key THEN value ELSE map[k]]
Del(map, key) == [k \in DOMAIN map \ {key} |-> map[k]]

\* As WithoutCallback, had remove_job left the callback in place.
WithoutCallback_Kept(callbacks, job_id) == callbacks

\* Lines 183-184
WithoutCallback(callbacks, job_id) ==
    IF job_id \in DOMAIN callbacks THEN Del(callbacks, job_id) ELSE callbacks

SchedOp(op, job_id, callback, schedule_type, raised) ==
    [op |-> op, job_id |-> job_id, callback |-> callback,
     schedule_type |-> schedule_type, raised |-> raised,
     jobs_before |-> jobs, callbacks_before |-> job_callbacks]

outside_scheduler == <<engine_vars, scrape_vars, plugin_vars, race_vars, browser_vars,
                       norm_vars, product_vars, store_vars, parser_vars>>

AddJob ==
    /\ \E job_id \in JobIds, callback \in Callbacks,
          schedule_type \in ScheduleTypes, cron_expression \in CronExpressions :
          LET trigger == Trigger(schedule_type, cron_expression)
          IN  IF trigger = <<"ValueError">>
              THEN /\ sched_op' = SchedOp("add_job", job_id, callback, schedule_type, TRUE)
                   /\ UNCHANGED <<jobs, job_callbacks, scheduled>>
              ELSE /\ scheduled' = scheduled \cup {job_id}
                   /\ jobs' = Put(jobs, job_id,
                                  [id |-> job_id, schedule_type |-> schedule_type,
                                   trigger |-> trigger])
                   /\ job_callbacks' = Put(job_callbacks, job_id, callback)
                   /\ sched_op' = SchedOp("add_job", job_id, callback, schedule_type, FALSE)
    /\ UNCHANGED outside_scheduler

\* scheduler.remove_job raises JobLookupError for a job its store dropped
RemoveJob ==
    /\ \E job_id \in JobIds :
          IF job_id \in DOMAIN jobs
          THEN IF job_id \in scheduled
               THEN /\ scheduled' = scheduled \ {job_id}
                    /\ jobs' = Del(jobs, job_id)
                    /\ job_callbacks' = WithoutCallback(job_callbacks, job_id)
                    /\ sched_op' = SchedOp("remove_job", job_id, "", "", FALSE)
               ELSE /\ sched_op' = SchedOp("remove_job", job_id, "", "", TRUE)
                    /\ UNCHANGED <<jobs, job_callbacks, scheduled>>
          ELSE /\ sched_op' = SchedOp("remove_job", job_id, "", "", FALSE)
               /\ UNCHANGED <<jobs, job_callbacks, scheduled>>
    /\ UNCHANGED outside_scheduler

RunJobNow ==
    /\ \E job_id \in JobIds :
          IF job_id \in DOMAIN job_callbacks
          THEN sched_op' = SchedOp("run_job_now", job_id, job_callbacks[job_id], "", FALSE)
          ELSE sched_op' = SchedOp("run_job_now", job_id, "", "", TRUE)
    /\ UNCHANGED <<jobs, job_callbacks, scheduled>>
    /\ UNCHANGED outside_scheduler

\* The scheduler's thread runs job_wrapper (lines 96-104) of a due job
JobRuns ==
    /\ \E job_id \in scheduled :
          /\ scheduled' = IF jobs[job_id].schedule_type = "date"
                          THEN scheduled \ {job_id} ELSE scheduled
          /\ sched_op' = SchedOp("job_wrapper", job_id, "", "", FALSE)
    /\ UNCHANGED <<jobs, job_callbacks>>
    /\ UNCHANGED outside_scheduler

NextScheduler == AddJob \/ RemoveJob \/ RunJobNow \/ JobRuns

(***************************************************************************)
(* DOMParser (parser.py).  self.soup is the parsed document: whether it    *)
(* has a body, and its elements with content in document order, each in    *)
(* head or body.  Tag "ld_json" is a script element of type                *)
(* application/ld+json.  A text is a sequence of the elements' strings.    *)
(***************************************************************************)
Node(place, tag) == [place |-> place, tag |-> tag]
HeadNodes == {Node("head", tag) : tag \in {"script", "style", "ld_json"}}
BodyNodes == {Node("body", tag) : tag \in {"p", "script", "style", "ld_json"}}
Documents ==
    {[body |-> TRUE, nodes |-> n] : n \in SeqsUpTo(HeadNodes \cup BodyNodes, MaxNodes)}
        \cup {[body |-> FALSE, nodes |-> n] : n \in SeqsUpTo(HeadNodes, MaxNodes)}
NoDocument == [body |-> FALSE, nodes |-> <<>>]

\* The string inside an element
StringOf(node) ==
    CASE node.tag = "p" -> "Hello"
      [] node.tag = "script" -> "var x = 1;"
      [] node.tag = "style" -> ".c { color: red }"
      [] node.tag = "ld_json" -> "{\"@type\": \"Product\"}"

Selectors == {"p", "script", "style", "script[type='application/ld+json']"}

Matches(node, selector) ==
    CASE selector = "script" -> node.tag \in {"script", "ld_json"}
      [] selector = "script[type='application/ld+json']" -> node.tag = "ld_json"
      [] OTHER -> node.tag = selector

Strings(nodes) == [i \in DOMAIN nodes |-> StringOf(nodes[i])]

\* find_by_css (lines 36-51): self.soup.select(selector)
find_by_css(doc, selector) ==
    LET matching(node) == Matches(node, selector)
    IN  SelectSeq(doc.nodes, matching)

\* extract_text with a selector (lines 105-109)
extract_text(doc, selector) == Strings(find_by_css(doc, selector))

\* extract_structured_data (lines 214-233)
extract_structured_data(doc) ==
    LET scripts == find_by_css(doc, "script[type='application/ld+json']")
    IN  [i \in DOMAIN scripts |-> [type |-> "json-ld", data |-> StringOf(scripts[i])]]

\* clean_html (lines 235-256), on a copy of the document
clean_html(doc, remove_scripts, remove_styles) ==
    LET kept(node) ==
            /\ ~(remove_scripts /\ node.tag \in {"script", "ld_json"})
            /\ ~(remove_styles /\ node.tag = "style")
    IN  [body |-> doc.body, nodes |-> SelectSeq(doc.nodes, kept)]

\* What the four read operations return for the document
Results(doc) ==
    [find_by_css |-> [s \in Selectors |-> find_by_css(doc, s)],
     extract_structured_data |-> extract_structured_data(doc),
     extract_text |-> [s \in Selectors |-> extract_text(doc, s)],
     clean_html |-> [f \in BOOLEAN \X BOOLEAN |-> clean_html(doc, f[1], f[2])]]

NoSnapshot == [taken |-> FALSE, after |-> 0, results |-> Results(NoDocument)]

\* Lines 273-274: tag.decompose() for the script and style elements of body
Decomposed(doc) ==
    LET kept(node) == ~(node.place = "body" /\ node.tag \in {"script", "style", "ld_json"})
    IN  [doc EXCEPT !.nodes = SelectSeq(doc.nodes, kept)]

\* Lines 276-280: the text of what is in body
BodyText(doc) ==
    LET in_body(node) == node.place = "body"
    IN  Strings(SelectSeq(doc.nodes, in_body))

outside_parser == <<engine_vars, scrape_vars, plugin_vars, race_vars, browser_vars,
                    norm_vars, product_vars, store_vars, sched_vars>>

\* A caller reads the document with the four operations
ReadDocument ==
    /\ snapshot' = [taken |-> TRUE, after |-> Len(body_texts), results |-> Results(soup)]
    /\ UNCHANGED <<soup, body_texts>>
    /\ UNCHANGED outside_parser

\* get_body_text (lines 258-280)
GetBodyText ==
    /\ Len(body_texts) < MaxBodyTexts
    /\ IF ~soup.body
       THEN /\ body_texts' = Append(body_texts, <<>>)
            /\ soup' = soup
       ELSE /\ soup' = Decomposed(soup)
            /\ body_texts' = Append(body_texts, BodyText(soup'))
    /\ UNCHANGED snapshot
    /\ UNCHANGED outside_parser

NextParser == ReadDocument \/ GetBodyText

IdleProduct == product = NoProduct /\ normalized = NotProduced
IdleStore == db_products = <<>> /\ db_history = <<>> /\ tracked = NoTrack
IdleScheduler ==
    /\ jobs = <<>> /\ job_callbacks = <<>> /\ scheduled = {} /\ sched_op = NoSchedOp
IdleParser == soup = NoDocument /\ snapshot = NoSnapshot /\ body_texts = <<>>

\* No product normalized or tracked, no job scheduled, no document parsed
IdleData == IdleProduct /\ IdleStore /\ IdleScheduler /\ IdleParser

IdleNorm ==
    /\ norm_fn = None /\ norm_in = NoneInput /\ norm_out = NotNormalized

IdleRest ==
    /\ IdleRace
    /\ browser_type = "chromium"
    /\ IdleBrowser
    /\ IdleNorm
    /\ IdleData

\* UniversalScraper(use_browser, anti_block=AntiBlockEngine(proxies, enable_rotation))
Init ==
    /\ proxies \in {<<>>, <<"p1", "p2">>}
    /\ current_proxy_index = 0
    /\ enable_rotation \in BOOLEAN
    /\ get_proxy_calls = 0
    /\ last_proxy = NoProxy
    /\ pool_changed = FALSE
    /\ last_op = NoOp
    /\ agents = <<>>
    /\ IdleRest
    /\ browser_manager \in BOOLEAN
    /\ IdleScrape
    /\ IdlePlugins

Next ==
    \/ ScrapeCall
    \/ RequestsReturns
    \/ CloudscraperReturns
    \/ BrowserReturns
    \/ WaitReturns
    \/ ScrapeReset

Spec == Init /\ [][Next]_vars

\* AntiBlockEngine(proxies, enable_rotation=...) and the calls on its pool
InitRotator ==
    /\ proxies \in SeqsUpTo(ProxyPool, MaxProxies)
    /\ current_proxy_index = 0
    /\ enable_rotation \in BOOLEAN
    /\ get_proxy_calls = 0
    /\ last_proxy = NoProxy
    /\ pool_changed = FALSE
    /\ last_op = NoOp
    /\ agents = <<>>
    /\ IdleRest
    /\ browser_manager = FALSE
    /\ IdleScrape
    /\ IdlePlugins

NextRotator ==
    \/ GetProxy
    \/ AddProxy
    \/ RemoveProxy

SpecRotator == InitRotator /\ [][NextRotator]_vars

\* AntiBlockEngine(enable_rotation=...) and the get_headers() calls on it

SpecHeaders == InitRotator /\ [][GetHeaders]_vars

\* One AntiBlockEngine with rotation and a pool, shared by NumThreads threads
\* that each call get_proxy() once
InitRace ==
    /\ proxies \in SeqsUpTo(ProxyPool, MaxProxies) \ {<<>>}
    /\ current_proxy_index = 0
    /\ enable_rotation = TRUE
    /\ get_proxy_calls = 0
    /\ last_proxy = NoProxy
    /\ pool_changed = FALSE
    /\ last_op = NoOp
    /\ agents = <<>>
    /\ browser_manager = FALSE
    /\ IdleScrape
    /\ IdlePlugins
    /\ IdleRest

NextRace ==
    \E t \in Threads :
        \/ RacePick(t)
        \/ RaceCompute(t)
        \/ RaceStore(t)

SpecRace == InitRace /\ [][NextRace]_vars

\* One BrowserManager, used from synchronous code: calls of the two
\* coroutines, one at a time, and close() between them
InitBrowser ==
    /\ proxies = <<>>
    /\ current_proxy_index = 0
    /\ enable_rotation = TRUE
    /\ get_proxy_calls = 0
    /\ last_proxy = NoProxy
    /\ pool_changed = FALSE
    /\ last_op = NoOp
    /\ agents = <<>>
    /\ browser_manager = TRUE
    /\ IdleScrape
    /\ IdlePlugins
    /\ IdleRace
    /\ browser_type \in BrowserTypes
    /\ IdleBrowser
    /\ IdleNorm
    /\ IdleData

NextBrowser ==
    \/ ScrapePageAsync
    \/ ScrapeAuthenticatedAsync
    \/ StartPlaywright
    \/ Launch
    \/ NewContext
    \/ NewPage
    \/ SetHeaders
    \/ Goto
    \/ MeasureFirst
    \/ ScrollBottom
    \/ ScrollDelay
    \/ Measure
    \/ ScrollTop
    \/ TopDelay
    \/ Settle
    \/ Content
    \/ Title
    \/ Screenshot
    \/ ClosePage
    \/ LoginNewPage
    \/ LoginGoto
    \/ FillUsername
    \/ FillPassword
    \/ ClickSubmit
    \/ PressEnter
    \/ WaitNetworkIdle
    \/ CloseLoginPage
    \/ Close

SpecBrowser == InitBrowser /\ [][NextBrowser]_vars

\* One value handed to _normalize_rating of either class
InitNormalize ==
    /\ proxies = <<>>
    /\ current_proxy_index = 0
    /\ enable_rotation = TRUE
    /\ get_proxy_calls = 0
    /\ last_proxy = NoProxy
    /\ pool_changed = FALSE
    /\ last_op = NoOp
    /\ agents = <<>>
    /\ browser_manager = FALSE
    /\ IdleScrape
    /\ IdlePlugins
    /\ IdleRace
    /\ browser_type = "chromium"
    /\ IdleBrowser
    /\ norm_fn = None
    /\ norm_in \in RatingInputs
    /\ norm_out = NotNormalized
    /\ IdleData

NextNormalize ==
    \/ ComparatorNormalizeRating
    \/ TrackerNormalizeRating

SpecNormalize == InitNormalize /\ [][NextNormalize]_vars

\* One product dict handed to normalize_product or to
\* normalize_product_attributes
\* Nothing but the data operations in use
InitOutsideData ==
    /\ proxies = <<>>
    /\ current_proxy_index = 0
    /\ enable_rotation = TRUE
    /\ get_proxy_calls = 0
    /\ last_proxy = NoProxy
    /\ pool_changed = FALSE
    /\ last_op = NoOp
    /\ agents = <<>>
    /\ browser_manager = FALSE
    /\ IdleScrape
    /\ IdlePlugins
    /\ IdleRace
    /\ browser_type = "chromium"
    /\ IdleBrowser
    /\ IdleNorm

InitProduct ==
    /\ InitOutsideData
    /\ product \in Products /\ normalized = NotProduced
    /\ IdleStore /\ IdleScheduler /\ IdleParser

NextProduct ==
    \/ NormalizeProduct
    \/ NormalizeProductAttributes

SpecProduct == InitProduct /\ [][NextProduct]_vars

\* A PriceTracker over an empty database
SpecStore == Init /\ [][TrackProduct]_vars

\* A DOMParser after __init__ (lines 18-34) on some document
InitParser ==
    /\ InitOutsideData
    /\ IdleProduct /\ IdleStore /\ IdleScheduler
    /\ soup \in Documents /\ snapshot = NoSnapshot /\ body_texts = <<>>

SpecParser == InitParser /\ [][NextParser]_vars

\* A ScrapingScheduler after __init__
SpecScheduler == Init /\ [][NextScheduler]_vars

\* PluginManager() and the calls on it
InitPlugins ==
    /\ proxies = <<>>
    /\ current_proxy_index = 0
    /\ enable_rotation = TRUE
    /\ get_proxy_calls = 0
    /\ last_proxy = NoProxy
    /\ pool_changed = FALSE
    /\ last_op = NoOp
    /\ agents = <<>>
    /\ IdleRest
    /\ browser_manager = TRUE
    /\ IdleScrape
    /\ IdlePlugins

NextPlugins ==
    \/ RegisterExtractor
    \/ GetExtractorForUrl
    \/ ScrapeUrl

SpecPlugins == InitPlugins /\ [][NextPlugins]_vars

(***************************************************************************)
(* Properties of scrape(), checked under Spec.                             *)
(***************************************************************************)
Failed(cs) == {i \in DOMAIN cs : cs[i].status = "failed"}
CallsOf(a) == {i \in DOMAIN calls : calls[i].attempt = a}
Active     == pc \notin {"idle"}

\* C1: in "auto" mode, once the requests tier has succeeded in an attempt,
\* no bypass or browser invocation belongs to that attempt or a later one,
\* and no invocation at all follows the successful one.
C1_HttpSuccessShortCircuits ==
    method = "auto" =>
        \A i \in DOMAIN calls :
            (calls[i].tier = "requests" /\ calls[i].status = "ok") =>
                /\ i = Len(calls)
                /\ \A j \in DOMAIN calls :
                      calls[j].tier \in {"cloudscraper", "browser"}
                          => calls[j].attempt < calls[i].attempt

\* The requests tier succeeds in the third attempt of an "auto" call whose
\* earlier attempts went through the bypass and the browser tier.
C1_Witness ==
    /\ method = "auto" /\ pc = "returned" /\ attempt = 2
    /\ calls[Len(calls)].tier = "requests" /\ calls[Len(calls)].status = "ok"
    /\ \E j \in DOMAIN calls : calls[j].tier = "browser"

\* C2: when scrape() returns in attempt r (1-based) after r-1 failed
\* attempts, the result is the one of the last tier invocation, tagged with
\* the tier whose client fetched the html, and wait_before_retry has been
\* called r-1 times, for attempts 0..r-2, with base delays base_delay * 2^attempt
\* that never decrease (nor do the delays actually slept).
C2_SuccessAfterFailures ==
    pc = "returned" =>
        LET r == attempt + 1
            last == calls[Len(calls)]
        IN  /\ r >= 1 /\ r <= retries
            /\ last.status = "ok" /\ last.attempt = r - 1
            /\ \A i \in 1..(Len(calls) - 1) : calls[i].status = "failed"
            /\ result.method_used = last.tier
            /\ result.html = [served_by |-> last.tier, url |-> url]
            /\ result.method_used = result.html.served_by
            /\ Len(sleeps) = r - 1
            /\ \A i \in DOMAIN sleeps :
                  /\ sleeps[i].attempt = i - 1
                  /\ sleeps[i].base = BaseDelayMs * Pow2(i - 1)
                  /\ sleeps[i].delay >= sleeps[i].base
            /\ \A i, j \in DOMAIN sleeps :
                  i < j => /\ sleeps[i].base <= sleeps[j].base
                           /\ sleeps[i].delay <= sleeps[j].delay

\* Two attempts fail and the third succeeds through the bypass tier.
C2_Witness ==
    /\ pc = "returned" /\ attempt = 2 /\ Len(sleeps) = 2
    /\ result.method_used = "cloudscraper"

\* The tier invocations that made a fetch and failed (a browser tier without
\* a browser manager fetches nothing).
FailedFetches ==
    {i \in Failed(calls) : calls[i].tier = "browser" => browser_manager}

\* C3: when every attempt of scrape() failed, the error raised carries the
\* url and one entry, tier and error, for each failed tier attempt of the
\* call, in their order.
C3_ExhaustedErrorCarriesLog ==
    (pc = "raised" /\ retries >= 1 /\ FailedFetches # {}) =>
        /\ error.url = url
        /\ Len(error.failures) = Cardinality(FailedFetches)
        /\ \A i \in DOMAIN error.failures :
              \E j \in FailedFetches : calls[j].tier = error.failures[i].tier

\* C4: in "auto" mode the tiers of an attempt run one after the other in the
\* order requests, cloudscraper, browser: the bypass tier only right after
\* the requests tier failed in the same attempt, the browser tier only right
\* after both failed and only with a browser manager; only the last
\* invocation can be in flight; and an attempt has failed only when every
\* available tier was invoked in it and failed.
C4_AutoTiersSequential ==
    method = "auto" =>
        /\ \A j \in DOMAIN calls :
              /\ j < Len(calls) => calls[j].status # "pending"
              /\ calls[j].tier = "requests" =>
                    \/ j = 1 /\ calls[j].attempt = 0
                    \/ j > 1 /\ calls[j - 1].attempt = calls[j].attempt - 1
                             /\ calls[j - 1].status = "failed"
              /\ calls[j].tier = "cloudscraper" =>
                    /\ j > 1
                    /\ calls[j - 1].tier = "requests"
                    /\ calls[j - 1].status = "failed"
                    /\ calls[j - 1].attempt = calls[j].attempt
              /\ calls[j].tier = "browser" =>
                    /\ browser_manager
                    /\ j > 2
                    /\ calls[j - 1].tier = "cloudscraper"
                    /\ calls[j - 1].status = "failed"
                    /\ calls[j - 1].attempt = calls[j].attempt
                    /\ calls[j - 2].tier = "requests"
                    /\ calls[j - 2].status = "failed"
                    /\ calls[j - 2].attempt = calls[j].attempt
        /\ (pc \in Tiers) = (calls # <<>> /\ calls[Len(calls)].status = "pending")
        /\ pc \in Tiers => calls[Len(calls)].tier = pc
        /\ \A a \in 0..attempt :
              (a < retries /\ (a < attempt \/ pc \in {"sleep", "raised"})) =>
                  /\ {calls[i].tier : i \in CallsOf(a)} =
                        IF browser_manager THEN Tiers ELSE {"requests", "cloudscraper"}
                  /\ \A i \in CallsOf(a) : calls[i].status = "failed"
                  /\ Cardinality(CallsOf(a)) = IF browser_manager THEN 3 ELSE 2

\* An "auto" call with a browser manager fails all three tiers in each of
\* at least two attempts.
C4_Witness ==
    /\ method = "auto" /\ browser_manager /\ pc = "raised" /\ retries >= 2
    /\ Len(calls) = 3 * retries

\* C5: with a pinned method only that tier is invoked, once per attempt: the
\* i-th invocation is the pinned tier's, in attempt i-1, so the invocations
\* number the attempts made, at most `retries`.
C5_PinnedTierOnly ==
    (Active /\ method \in Tiers /\ retries >= 1) =>
        /\ Len(calls) = attempt + 1
        /\ Len(calls) <= retries
        /\ \A i \in DOMAIN calls :
              /\ calls[i].tier = method
              /\ calls[i].attempt = i - 1
        /\ \A tier \in Tiers \ {method} :
              {i \in DOMAIN calls : calls[i].tier = tier} = {}

\* A call pinned to the bypass tier fails in each of its three attempts.
C5_Witness ==
    /\ method = "cloudscraper" /\ pc = "raised" /\ retries = 3 /\ Len(calls) = 3
    /\ \A i \in DOMAIN calls : calls[i].status = "failed"

\* C6: one scrape() call asks get_headers once, and every tier invocation of
\* the call, in whatever attempt, is made with the headers it got then.
C6_SameHeadersEveryAttempt ==
    Active =>
        /\ get_headers_calls = 1
        /\ \A i \in DOMAIN calls :
              /\ calls[i].headers = headers
              /\ calls[i].headers = calls[1].headers

\* With rotation enabled, a call retries twice and all its invocations carry
\* the fourth user agent.
C6_Witness ==
    /\ enable_rotation /\ pc = "raised" /\ attempt = 2 /\ Len(calls) >= 3
    /\ headers = [User_Agent |-> 4]
    /\ calls[Len(calls)].headers = [User_Agent |-> 4]

\* C7: scrape() has asked get_proxy before its first tier invocation, and
\* every tier invocation is made with the proxy it returned.
C7_TiersUseSelectedProxy ==
    (calls # <<>> /\ proxies # <<>>) =>
        /\ get_proxy_calls >= 1
        /\ \A i \in DOMAIN calls : calls[i].proxy = last_proxy

(***************************************************************************)
(* Properties of the extractor registry, checked under SpecPlugins.        *)
(***************************************************************************)
Matching(exts, u) == {i \in DOMAIN exts : can_handle(exts[i], u)}
Least(S) == CHOOSE i \in S : \A j \in S : i <= j

\* C8: the registry is the accepted registrations in call order, a duplicate
\* kept as a further entry, and get_extractor_for_url returns the entry of
\* least position among those whose can_handle accepts the url: Amazon for
\* [Amazon, Flipkart] and Flipkart for [Flipkart, Amazon] when both accept.
C8_RegistrationOrderIsPriority ==
    /\ extractors = registered
    /\ LET m == Matching(dispatched.among, dispatched.url)
       IN  m # {} => dispatched.extractor = dispatched.among[Least(m)]
    /\ (dispatched.url = FlipAmazon /\ Len(dispatched.among) >= 2) =>
          /\ (dispatched.among[1] = Amazon1 /\ dispatched.among[2] = Flipkart1)
                => dispatched.extractor = Amazon1
          /\ (dispatched.among[1] = Flipkart1 /\ dispatched.among[2] = Amazon1)
                => dispatched.extractor = Flipkart1

\* Flipkart, Amazon and Flipkart again are registered, and a url both accept
\* is dispatched to the first Flipkart entry.
C8_Witness ==
    /\ extractors = <<Flipkart1, Amazon1, Flipkart1>>
    /\ dispatched.among = extractors
    /\ dispatched.url = FlipAmazon
    /\ dispatched.extractor = Flipkart1

\* C9: get_extractor_for_url returns None exactly when no registered
\* extractor accepts the url; scrape_url makes at most one extraction per
\* fetch, exactly one when it answers 200: by a registered extractor that
\* accepts the url when there is one, by the generic extraction exactly when
\* there is none.
C9_ExactlyOneExtractor ==
    /\ (dispatched.extractor = NoExtractor)
          = (Matching(dispatched.among, dispatched.url) = {})
    /\ LET m  == Matching(response.among, response.url)
           by == response.extracted_by
       IN  /\ Len(by) <= 1
           /\ response.status_code = 200 => Len(by) = 1
           /\ Len(by) = 1 =>
                 /\ (by[1] = Generic) = (m = {})
                 /\ m # {} => by[1] = response.among[Least(m)]

\* A Flipkart url is scraped with Amazon registered before Flipkart: the
\* Flipkart extractor makes the record.
C9_Witness ==
    /\ response.status_code = 200
    /\ response.url = Flipkart
    /\ response.among = <<Amazon1, Flipkart1>>
    /\ response.extracted_by = <<Flipkart1>>

\* A url no registered extractor accepts is scraped: the generic extraction
\* makes the record.
C9_WitnessGeneric ==
    /\ response.status_code = 200
    /\ response.url = Example
    /\ Len(response.among) = 2
    /\ response.extracted_by = <<Generic>>

(***************************************************************************)
(* Properties of the proxy pool, checked under SpecRotator.                *)
(***************************************************************************)
\* C10: while the pool is as constructed, the k-th get_proxy returns None for
\* an empty pool; with rotation, the proxy at 0-based position (k-1) mod n of
\* the n in the pool, leaving the cursor at k mod n; without rotation, the
\* first proxy, leaving the cursor at 0.
C10_GetProxyRoundRobin ==
    (get_proxy_calls >= 1 /\ ~pool_changed) =>
        LET k == get_proxy_calls
            n == Len(proxies)
        IN  IF n = 0
            THEN last_proxy = NoProxy /\ current_proxy_index = 0
            ELSE IF enable_rotation
            THEN /\ last_proxy.http = proxies[((k - 1) % n) + 1]
                 /\ last_proxy.https = proxies[((k - 1) % n) + 1]
                 /\ current_proxy_index = k % n
            ELSE /\ last_proxy.http = proxies[1]
                 /\ last_proxy.https = proxies[1]
                 /\ current_proxy_index = 0

\* The fifth call on a rotating pool of three distinct proxies returns the
\* second one.
C10_Witness ==
    /\ enable_rotation /\ ~pool_changed
    /\ proxies = <<"p1", "p2", "p3">>
    /\ get_proxy_calls = 5
    /\ last_proxy = [http |-> "p2", https |-> "p2"]

(***************************************************************************)
(* Properties of get_headers, checked under SpecHeaders.                   *)
(***************************************************************************)
\* C11 as stated: with rotation enabled successive get_headers calls walk the
\* user-agent pool in order, each call using the agent after the previous
\* call's, and with rotation disabled every call uses USER_AGENTS[0].
C11_UserAgentRoundRobin ==
    /\ enable_rotation =>
           \A i \in 1..(Len(agents) - 1) :
               agents[i + 1] = (agents[i] % NumUserAgents) + 1
    /\ ~enable_rotation => \A i \in DOMAIN agents : agents[i] = 1

\* C11 as the code has it: every call returns an agent of the static pool,
\* picked independently of the earlier calls when rotation is enabled, and
\* USER_AGENTS[0] when rotation is disabled; no call moves the proxy cursor.
C11_UserAgentFromPool ==
    /\ \A i \in DOMAIN agents : agents[i] \in 1..NumUserAgents
    /\ ~enable_rotation => \A i \in DOMAIN agents : agents[i] = 1
    /\ current_proxy_index = 0

\* With rotation enabled two successive calls return the same agent.
C11_Witness ==
    /\ enable_rotation
    /\ Len(agents) >= 2
    /\ agents[1] = 3 /\ agents[2] = 3

(***************************************************************************)
(* Properties of add_proxy and remove_proxy, checked under SpecRotator.    *)
(***************************************************************************)
\* C12: add_proxy leaves the pool as it was with the proxy appended and the
\* cursor as it was; remove_proxy of a proxy in the pool leaves the pool as
\* it was without one occurrence of it; remove_proxy of a proxy not in the
\* pool leaves the pool and the cursor as they were.
C12_AddAppendsRemoveAbsentNoOp ==
    LET before == last_op.before
        p      == last_op.proxy
        Present == \E i \in DOMAIN before : before[i] = p
    IN  /\ last_op.op = "add_proxy" =>
            /\ Len(proxies) = Len(before) + 1
            /\ \A i \in DOMAIN before : proxies[i] = before[i]
            /\ proxies[Len(proxies)] = p
            /\ current_proxy_index = last_op.index_before
        /\ (last_op.op = "remove_proxy" /\ Present) =>
            /\ \E i \in DOMAIN before :
                   /\ before[i] = p
                   /\ proxies = SubSeq(before, 1, i - 1) \o
                                SubSeq(before, i + 1, Len(before))
            /\ current_proxy_index = last_op.index_before
        /\ (last_op.op = "remove_proxy" /\ ~Present) =>
            /\ proxies = before
            /\ current_proxy_index = last_op.index_before

\* remove_proxy of a proxy that is not in a pool of two whose cursor has
\* moved.
C12_Witness ==
    /\ last_op.op = "remove_proxy"
    /\ last_op.proxy = "p3"
    /\ last_op.before = <<"p1", "p2">>
    /\ last_op.index_before = 1
    /\ proxies = <<"p1", "p2">>

(***************************************************************************)
(* get_proxy under concurrent callers, checked under SpecRace.             *)
(***************************************************************************)
\* C13: no two concurrent get_proxy calls on one engine observe the same
\* cursor value, so when the unchanged pool has at least as many proxies as
\* there are calls, the calls that have returned the proxies of distinct
\* pool positions.
C13_NoSharedCursorValue ==
    \A s, t \in Threads :
        (s # t /\ t_pc[s] # "idle" /\ t_pc[t] # "idle"
             /\ Len(proxies) >= NumThreads)
            => t_seen[s] # t_seen[t]

(***************************************************************************)
(* Properties of BrowserManager, checked under SpecBrowser.                *)
(***************************************************************************)
InTrace(x) == \E i \in DOMAIN btrace : btrace[i] = x
Idx(x) == CHOOSE i \in DOMAIN btrace : btrace[i] = x
Count(x) == Cardinality({i \in DOMAIN btrace : btrace[i] = x})
Ordered(x, y) == InTrace(x) /\ InTrace(y) /\ Idx(x) < Idx(y)

C15_HandlesCreatedOnceOnePagePerCall ==
    /\ (bpc = "idle" /\ ~released.called) => created = NoneCreated
    /\ created.playwright = (IF playwright THEN 1 ELSE 0)
    /\ created.browser = (IF browser THEN 1 ELSE 0)
    /\ created.context = (IF context THEN 1 ELSE 0)
    /\ pages_made[PageCo] = (IF InTrace("new_page") THEN 1 ELSE 0)
    /\ bpc = "returned" => pages_made[PageCo] = 1

\* A call that found all three handles set, started nothing and returned.
C15_Witness ==
    /\ bpc = "returned"
    /\ bop.kind = PageCo
    /\ btrace[1] = "new_page"
    /\ created = [playwright |-> 1, browser |-> 1, context |-> 1]
    /\ pages_made[PageCo] = 1

\* C16: close() releases the handles it holds in the order context, browser,
\* playwright; when it has returned all three are unset; a close() that
\* finds no handle set releases nothing and raises nothing.
C16_CloseOrderAndIdempotent ==
    released.called =>
        LET Rank(h) == CASE h = "context" -> 1 [] h = "browser" -> 2
                         [] h = "playwright" -> 3
            done == released.handles
        IN  /\ \A i, j \in DOMAIN done : i < j => Rank(done[i]) < Rank(done[j])
            /\ ~released.raised =>
                  /\ ~context /\ ~browser /\ ~playwright
                  /\ {done[i] : i \in DOMAIN done} = released.held
            /\ released.held = {} => (done = <<>> /\ ~released.raised)

\* A close() right after the close() that released all three handles.
C16_Witness ==
    /\ released.called /\ ~released.raised
    /\ released.prior = <<"context", "browser", "playwright">>
    /\ released.handles = <<>>
    /\ ~context /\ ~browser /\ ~playwright

\* C17: _auto_scroll counts one pass per measurement after the first; it
\* goes round only after a measurement that differs from the previous one
\* and leaves the loop at the first that equals it, so within one pass more
\* than the page grows; it then scrolls to the top before line 118.
C17_AutoScrollStopsAtFirstEqualHeight ==
    LET n == Len(heights)
    IN  /\ passes = (IF n = 0 THEN 0 ELSE n - 1)
        /\ \A i \in 1..(n - 2) : heights[i] # heights[i + 1]
        /\ bpc = "scroll_bottom" /\ n >= 2 => heights[n] # heights[n - 1]
        /\ (bpc = "scroll_top" \/ InTrace("scroll_top")) =>
              /\ n >= 2 /\ heights[n] = heights[n - 1]
              /\ heights[n] = BodyHeight => passes = 1
        /\ passes <= MaxGrowth + 1
        /\ (InTrace("settle") /\ bop.auto_scroll) =>
              /\ Ordered("measure", "scroll_top")
              /\ Ordered("scroll_top", "settle")

\* A page that could still grow did not: heights [1000, 1000], one pass, and
\* the scroll back to the top was the last step.
C17_Witness ==
    /\ heights = <<BodyHeight, BodyHeight>>
    /\ passes = 1
    /\ growth > 0
    /\ btrace # <<>> /\ Last(btrace) = "scroll_top"

\* The part of the trace from x on.
From(x) == SubSeq(btrace, Idx(x), Len(btrace))
Opt(cond, s) == IF cond THEN s ELSE <<>>
RECURSIVE Times(_, _)
Times(k, s) == IF k = 0 THEN <<>> ELSE s \o Times(k - 1, s)

\* C18: in a scrape_page_async activation the page is created with the
\* engine, browser and context set, and the content is read only after the
\* settle delay, which comes after the navigation; an activation that
\* returned did, from the page creation on: the optional header setup, the
\* navigation, with auto_scroll the scroll loop and the scroll to the top,
\* the settle delay, the content and title reads, the optional screenshot,
\* and the page close, in this order and nothing else.
C18_FetchStepOrder ==
    /\ InTrace("new_page") => (playwright /\ browser /\ context)
    /\ InTrace("goto") => Ordered("new_page", "goto")
    /\ InTrace("settle") => Ordered("goto", "settle")
    /\ InTrace("content") => Ordered("settle", "content")
    /\ InTrace("screenshot") => (bop.screenshots /\ Ordered("content", "screenshot"))
    /\ InTrace("measure0") => (bop.auto_scroll /\ Ordered("goto", "measure0"))
    /\ bpc = "returned" =>
          From("new_page") =
              <<"new_page">> \o Opt(bop.headers, <<"set_headers">>) \o <<"goto">>
              \o Opt(bop.auto_scroll,
                     <<"measure0">>
                     \o Times(passes, <<"scroll_bottom", "scroll_delay", "measure">>)
                     \o <<"scroll_top", "top_delay">>)
              \o <<"settle", "content", "title">>
              \o Opt(bop.screenshots, <<"screenshot">>)
              \o <<"close_page">>
              \o Opt(bop.kind = AuthCo, <<"close_login_page">>)

\* A call with headers, scrolling over a page that grew once, and a
\* screenshot has returned.
C18_Witness ==
    /\ bpc = "returned"
    /\ bop.kind = PageCo
    /\ bop.headers /\ bop.auto_scroll /\ bop.screenshots
    /\ passes = 2
    /\ Ordered("settle", "content")

LoginStepNames ==
    {"login_new_page", "login_goto", "fill_username", "fill_password",
     "click_submit", "press_enter", "press_enter_body", "wait_networkidle"}

\* C19: scrape_authenticated_async opens the login page, navigates to the
\* login URL, fills the username and the password field whose selector is
\* given, submits with a click on the submit selector if given and else with
\* Enter in the password field (in the body when no password selector is
\* given), and waits for network idle, in this order and each once; the
\* fetch of the target starts only when all of these have completed; when
\* one of them raises, the fetch of the target never starts, no step is
\* done again, and the call ends raising.
C19_LoginBeforeTargetNoRetry ==
    bop.kind = AuthCo =>
        LET login ==
                <<"login_new_page", "login_goto">>
                \o Opt(bop.username_selector, <<"fill_username">>)
                \o Opt(bop.password_selector, <<"fill_password">>)
                \o <<IF bop.submit_selector THEN "click_submit"
                     ELSE IF bop.password_selector THEN "press_enter"
                     ELSE "press_enter_body">>
                \o <<"wait_networkidle">>
            done == SelectSeq(btrace, LAMBDA x : x \in LoginStepNames)
        IN  /\ Len(done) <= Len(login)
            /\ done = SubSeq(login, 1, Len(done))
            /\ InTrace("new_page") =>
                  /\ done = login
                  /\ Ordered("wait_networkidle", "new_page")
            /\ raising \in LoginStepNames =>
                  /\ ~InTrace("new_page")
                  /\ bpc \in {"close_login_page", "raised"}
                  /\ done # login
            /\ (raising # None /\ bpc \in Finished) => bpc = "raised"

\* The password fill raised: the login page is closed, the target was not
\* fetched and the call has raised.
C19_Witness ==
    /\ bop.kind = AuthCo
    /\ bop.username_selector /\ bop.password_selector
    /\ bpc = "raised" /\ raising = "fill_password"
    /\ InTrace("fill_username")
    /\ ~InTrace("new_page")
    /\ Last(btrace) = "close_login_page"

(***************************************************************************)
(* Properties of the normalizers, checked under SpecNormalize.             *)
(***************************************************************************)
\* C20: for a number x >= 0, or a string whose first number is x,
\* _normalize_rating returns x when x <= 5 and x/10 when x > 5, and what it
\* returns is at most 5.
C20_RatingWithinFive ==
    (norm_out.done /\ norm_in.kind # "none"
         /\ (norm_in.kind = "string" => HasNumber(norm_in.text))) =>
        LET x == IF norm_in.kind = "number" THEN norm_in.x
                 ELSE FirstNumber(norm_in.text)
        IN  /\ norm_out.some
            /\ x <= 50 => norm_out.v = x * 10
            /\ x > 50 => norm_out.v = x
            /\ norm_out.v <= 500

(***************************************************************************)
(* The retry loop of scrape(), checked under Spec.                         *)
(***************************************************************************)
\* C25: in a scrape() call with retries >= 1, the i-th wait_before_retry
\* call has the zero-based index i-1 of the failed attempt it follows as
\* argument; there is one call per attempt that has failed and was not the
\* last permitted one: none after the attempt that succeeded, none after
\* the last attempt failed, retries-1 when every attempt failed.
C25_OneSleepPerFailedNonFinalAttempt ==
    (Active /\ retries >= 1) =>
        /\ \A i \in DOMAIN sleeps : sleeps[i].attempt = i - 1
        /\ Len(sleeps) = attempt + (IF pc = "sleep" THEN 1 ELSE 0)
        /\ Len(sleeps) <= retries - 1
        /\ pc = "raised" => (attempt = retries - 1 /\ Len(sleeps) = retries - 1)

\* All three attempts of a call failed: two sleeps, after attempts 0 and 1.
C25_Witness ==
    /\ pc = "raised" /\ retries = 3
    /\ Len(sleeps) = 2
    /\ sleeps[1].attempt = 0 /\ sleeps[2].attempt = 1
    /\ Len(calls) >= 3

\* C27 as stated: a scrape() call with a method outside auto, requests,
\* cloudscraper, browser invokes no tier, never returns and, when it has
\* ended, has raised the unknown-method error.
C27_UnknownMethodAlwaysRaisesIt ==
    (Active /\ method \notin {"auto", "requests", "cloudscraper", "browser"}) =>
        /\ calls = <<>>
        /\ pc # "returned"
        /\ pc = "raised" => error.cls = "ValueError"

\* C27 as the code has it: such a call invokes no tier and never returns;
\* with retries >= 1 it raises the unknown-method error, in the last of
\* `retries` loop iterations and after retries-1 backoff sleeps; with
\* retries <= 0 the loop does not run and the error is the generic one.
C27_UnknownMethodRaisedAfterRetries ==
    (Active /\ method \notin {"auto", "requests", "cloudscraper", "browser"}) =>
        /\ calls = <<>>
        /\ pc \in {"sleep", "raised"}
        /\ (pc = "raised" /\ retries >= 1) =>
              /\ error.cls = "ValueError" /\ error.msg = "Unknown method"
              /\ attempt = retries - 1
              /\ Len(sleeps) = retries - 1
        /\ (pc = "raised" /\ retries <= 0) =>
              /\ error.cls = "Exception"
              /\ sleeps = <<>>

\* scrape(method="selenium", retries=3) has raised the unknown-method error
\* after two sleeps.
C27_Witness ==
    /\ method = "selenium" /\ retries = 3
    /\ pc = "raised" /\ error.cls = "ValueError"
    /\ Len(sleeps) = 2 /\ calls = <<>>

\* C28: a scrape() call with retries <= 0 invokes no tier, sleeps never,
\* never returns and ends raising the generic "Failed to scrape" error that
\* names the url.
C28_NoRetriesFailsAtOnce ==
    (Active /\ retries <= 0) =>
        /\ calls = <<>>
        /\ sleeps = <<>>
        /\ pc = "raised"
        /\ result = NoResult
        /\ error.cls = "Exception"
        /\ error.msg = "Failed to scrape after attempts"
        /\ error.url = url

\* scrape(url, method="auto", retries=-1) has raised.
C28_Witness ==
    /\ pc = "raised" /\ retries = -1 /\ method = "auto"
    /\ calls = <<>> /\ sleeps = <<>>
    /\ error.msg = "Failed to scrape after attempts"

(***************************************************************************)
(* The cursor under add_proxy and remove_proxy, checked under SpecRotator. *)
(***************************************************************************)
\* C26: with rotation enabled, whenever the pool is not empty the cursor is
\* a valid index of it, and no get_proxy call has failed with an index out
\* of range.
C26_CursorStaysInPool ==
    enable_rotation =>
        /\ proxies # <<>> => current_proxy_index < Len(proxies)
        /\ last_proxy # IndexError

(***************************************************************************)
(* Properties of the product normalizers, checked under SpecProduct.       *)
(***************************************************************************)
\* C21: in the record of either class, a boolean availability is kept, a
\* None availability becomes false, "In Stock Now" becomes true, and a text
\* that says "unavailable" or "out of stock" becomes false.
C21_AvailabilityFromText ==
    (normalized.done /\ product.availability.kind # "missing") =>
        LET a == product.availability
            out == normalized.availability
            s == Lower(a.text)
        IN  /\ out.some
            /\ a.kind = "bool" => out.b = a.b
            /\ a.kind = "none" => out.b = FALSE
            /\ (a.kind = "text" /\ s = <<"in", " ", "stock", " ", "no", "w">>) =>
                   out.b = TRUE
            /\ (a.kind = "text"
                  /\ (IsSub(<<"un", "available">>, s)
                        \/ IsSub(<<"out", " ", "of", " ", "stock">>, s))) =>
                   out.b = FALSE

C23_PriceNeverNegative ==
    (normalized.done /\ normalized.price.some) => ~normalized.price.neg

(***************************************************************************)
(* Properties of track_product, checked under SpecStore.                   *)
(***************************************************************************)
\* C24: no two rows of products have the same url; a track_product call
\* for a record with a url does not raise; for a url that was stored it
\* returns that row's id and adds no row, for a new url it adds one row and
\* returns its id; it appends one price-history entry for the returned id
\* when the record has a price, and leaves the history as it was when the
\* price is absent.
C24_OneRowPerUrlOneEntryPerPrice ==
    /\ \A i, j \in DOMAIN db_products :
          db_products[i].url = db_products[j].url => i = j
    /\ tracked.n > 0 =>
          LET before == tracked.products_before
              Stored == \E i \in DOMAIN before : before[i].url = tracked.url
          IN  /\ tracked.url # None => ~tracked.raised
              /\ ~tracked.raised =>
                    /\ tracked.id \in DOMAIN db_products
                    /\ db_products[tracked.id].url = tracked.url
                    /\ Stored => (Len(db_products) = Len(before)
                                    /\ before[tracked.id].url = tracked.url)
                    /\ ~Stored => (Len(db_products) = Len(before) + 1
                                     /\ tracked.id = Len(db_products))
                    /\ tracked.price # -1 =>
                          /\ Len(db_history) = Len(tracked.history_before) + 1
                          /\ SubSeq(db_history, 1, Len(tracked.history_before))
                                = tracked.history_before
                          /\ Last(db_history).product_id = tracked.id
                          /\ Last(db_history).price = tracked.price
                    /\ tracked.price = -1 => db_history = tracked.history_before

\* The third call tracks a url again that is stored with one history entry:
\* still two rows, the same id, a second entry for it.
C24_Witness ==
    /\ tracked.n = 3 /\ ~tracked.raised
    /\ tracked.url = "shop/a" /\ tracked.id = 1 /\ tracked.price = 999
    /\ Len(db_products) = 2
    /\ Len(db_history) = 2
    /\ db_history[1].product_id = 1 /\ db_history[2].product_id = 1

(***************************************************************************)
(* Properties of the scheduler's two maps, checked under SpecScheduler.    *)
(***************************************************************************)
\* C29: jobs and job_callbacks have the same set of job ids; an add_job
\* that returns leaves the ids that were there plus its own, with its
\* schedule type and callback under its id and every other entry as it was;
\* an add_job that raises, one with a schedule type other than interval,
\* cron and date among them, and a remove_job of an id that is not in jobs
\* change neither map.
C29_JobsAndCallbacksSameIds ==
    /\ DOMAIN jobs = DOMAIN job_callbacks
    /\ (sched_op.op = "add_job" /\ ~sched_op.raised) =>
          /\ DOMAIN jobs = DOMAIN sched_op.jobs_before \cup {sched_op.job_id}
          /\ jobs[sched_op.job_id].schedule_type = sched_op.schedule_type
          /\ job_callbacks[sched_op.job_id] = sched_op.callback
          /\ \A k \in DOMAIN jobs \ {sched_op.job_id} :
                /\ jobs[k] = sched_op.jobs_before[k]
                /\ job_callbacks[k] = sched_op.callbacks_before[k]
    /\ (sched_op.op = "add_job"
          /\ (sched_op.raised \/ sched_op.schedule_type \notin {"interval", "cron", "date"})) =>
          /\ jobs = sched_op.jobs_before
          /\ job_callbacks = sched_op.callbacks_before
    /\ (sched_op.op = "remove_job" /\ sched_op.job_id \notin DOMAIN sched_op.jobs_before) =>
          /\ ~sched_op.raised
          /\ jobs = sched_op.jobs_before
          /\ job_callbacks = sched_op.callbacks_before

\* add_job replaced the entry of j1 next to j2's, and changed its callback
C29_ReplaceWitness ==
    /\ sched_op.op = "add_job" /\ ~sched_op.raised /\ sched_op.job_id = "j1"
    /\ DOMAIN sched_op.jobs_before = {"j1", "j2"}
    /\ DOMAIN jobs = {"j1", "j2"}
    /\ sched_op.callbacks_before["j1"] # job_callbacks["j1"]

\* remove_job took j1 out of both maps and left j2
C29_RemoveWitness ==
    /\ sched_op.op = "remove_job" /\ ~sched_op.raised /\ sched_op.job_id = "j1"
    /\ DOMAIN sched_op.jobs_before = {"j1", "j2"}
    /\ DOMAIN jobs = {"j2"}

(***************************************************************************)
(* Properties of DOMParser.get_body_text, checked under SpecParser.        *)
(***************************************************************************)
\* C30: once get_body_text has been called, find_by_css,
\* extract_structured_data, extract_text and clean_html return for the
\* document what they returned before the first call, and two successive
\* get_body_text calls return the same text.
C30_GetBodyTextReadOnly ==
    /\ (snapshot.taken /\ snapshot.after = 0 /\ Len(body_texts) > 0) =>
          Results(soup) = snapshot.results
    /\ Len(body_texts) = 2 => body_texts[1] = body_texts[2]

====
